---- MODULE Spec2Model ----
(***************************************************************************)
(* OAuth token lifecycle of the Outlook MCP server: the credential file    *)
(* (auth/token_manager.py), the CSRF state-token map and the authorization *)
(* callback server (outlook_auth_server.py).                               *)
(***************************************************************************)
EXTENDS Integers, Sequences, FiniteSets, TLC

VARIABLES
    now,            \* time.time(), in whole seconds
    ticks,          \* number of clock advances so far (bounds the run)
    tokenFile,      \* content of settings.MS_TOKEN_STORE_PATH
    fileMode,       \* permission bits of that file (meaningful when it exists)
    state_tokens,   \* outlook_auth_server._state_tokens: token -> timestamp
    issued,         \* every token secrets.token_urlsafe has returned so far
    pending,        \* issued tokens not yet passed to validate_state_token -> issue time
    consumed,       \* tokens for which validate_state_token has returned True
    settings,       \* config.settings: MS_CLIENT_ID, MS_CLIENT_SECRET
    last,           \* the last call: its arguments, what it saw and what it gave back
    loop,           \* the coroutine the callback server's event loop is running
    handlers,       \* /auth/callback requests in flight: request -> its position and locals
    writers,        \* processes inside get_valid_token or exchange_code_for_tokens
    search          \* the progressive_search call in progress: its position and locals

\* the positions and locals of the calls that are followed statement by statement
stepVars == <<loop, handlers, writers, search>>

vars == <<now, ticks, tokenFile, fileMode, state_tokens, issued, pending, consumed,
          settings, last, loop, handlers, writers, search>>

----------------------------------------------------------------------------
(* Bounds *)

\* the clock advances MaxTicks times at most, each time by one of Steps seconds
MaxTicks == 1

Steps == {599, 600, 601}

\* each process that is followed through the credential file's code makes MaxCalls
\* calls at most
MaxCalls == 2

----------------------------------------------------------------------------
(* Python values *)

None == [kind |-> "None"]

Str(s) == [kind |-> "str", s |-> s]

\* truthiness of an Optional[str] whose text is an atom
Truthy(x) == x.kind = "str" /\ x.s # ""

\* truthiness of an Optional[str] whose text is a sequence of characters
TruthyText(x) == x.kind = "str" /\ Len(x.s) > 0

Return(v) == [kind |-> "return", value |-> v]

Raise(e) == [kind |-> "raise", exc |-> e]

\* dict.get(key) on a JSON object whose values are strings
Get(d, key) == IF key \in DOMAIN d THEN Str(d[key]) ELSE None

----------------------------------------------------------------------------
(* The credential file *)

TOKEN_FILE_MODE == 384

\* permission bits open(path, "w") gives a file it creates: 0666 minus the umask
CreateModes == {420, 384}

Missing == [kind |-> "missing"]

Corrupt == [kind |-> "corrupt"]

Json(d) == [kind |-> "json", data |-> d]

IoOutcomes == {"ok", "open_fail", "write_fail", "chmod_fail"}

\* the file is written and its permission bits are left as open() made them
WriteTokenFile_NoChmod(tokens, file, mode, io, cmode) ==
    LET opened == IF file = Missing THEN cmode ELSE mode
    IN CASE io = "open_fail"  -> [ok |-> FALSE, file |-> file, mode |-> mode]
         [] io = "write_fail" -> [ok |-> FALSE, file |-> Corrupt, mode |-> opened]
         [] OTHER             -> [ok |-> TRUE, file |-> Json(tokens), mode |-> opened]

\* with open(path, "w") as f: json.dump(tokens, f); os.chmod(path, TOKEN_FILE_MODE)
WriteTokenFile(tokens, file, mode, io, cmode) ==
    LET opened == IF file = Missing THEN cmode ELSE mode
    IN CASE io = "open_fail"  -> [ok |-> FALSE, file |-> file, mode |-> mode]
         [] io = "write_fail" -> [ok |-> FALSE, file |-> Corrupt, mode |-> opened]
         [] io = "chmod_fail" -> [ok |-> FALSE, file |-> Json(tokens), mode |-> opened]
         [] OTHER             -> [ok |-> TRUE, file |-> Json(tokens), mode |-> TOKEN_FILE_MODE]

load_token_cache(file) ==
    IF file.kind = "json" THEN [kind |-> "dict", d |-> file.data] ELSE None

save_token_cache(tokens, file, mode, io, cmode) ==
    WriteTokenFile(tokens, file, mode, io, cmode)

buffer_seconds == 300

\* the clock read in milliseconds, expires_at kept in seconds
is_token_expired_Millis(tokens, t) ==
    IF DOMAIN tokens = {} \/ "expires_at" \notin DOMAIN tokens
    THEN TRUE
    ELSE t * 1000 >= tokens["expires_at"] - 300

\* > where the code has >=
is_token_expired_Strict(tokens, t) ==
    IF DOMAIN tokens = {} \/ "expires_at" \notin DOMAIN tokens
    THEN TRUE
    ELSE t > tokens["expires_at"] - 300

is_token_expired(tokens, t) ==
    IF DOMAIN tokens = {} \/ "expires_at" \notin DOMAIN tokens
    THEN TRUE
    ELSE t >= tokens["expires_at"] - buffer_seconds

----------------------------------------------------------------------------
(* The identity provider's token endpoint *)

\* requests.post(...) or response.json() raised: no connection, a timeout, a body that
\* is not JSON
NetworkError == [kind |-> "network_error"]

\* what requests.post(token_url, ...) followed by response.json() can give
TokenResponses ==
    {NetworkError,
     Json([error |-> "invalid_grant", error_description |-> "d"]),
     Json([access_token |-> "a1", refresh_token |-> "r1", expires_in |-> 900]),
     Json([access_token |-> "a2", expires_in |-> 900]),
     Json([refresh_token |-> "r2", expires_in |-> 900]),
     Json([access_token |-> "a2", refresh_token |-> "r2"])}

\* result["expires_at"] = value
WithExpiresAt(result, value) ==
    [k \in DOMAIN result \cup {"expires_at"} |->
        IF k = "expires_at" THEN value ELSE result[k]]

RefreshRequest(refresh_token) ==
    [url |-> "https://login.microsoftonline.com/common/oauth2/v2.0/token",
     grant_type |-> "refresh_token", credential |-> refresh_token]

refresh_access_token(refresh_token, file, mode, t, net, io, cmode) ==
    LET sent == <<RefreshRequest(refresh_token)>>
        fail == [ret |-> None, file |-> file, mode |-> mode, requests |-> sent]
    IN IF net.kind # "json" THEN fail
       ELSE IF "error" \in DOMAIN net.data THEN fail
       ELSE LET result == WithExpiresAt(net.data,
                    t + (IF "expires_in" \in DOMAIN net.data
                         THEN net.data["expires_in"] ELSE 3600))
                saved == save_token_cache(result, file, mode, io, cmode)
            IN [ret |-> IF saved.ok THEN [kind |-> "dict", d |-> result] ELSE None,
                file |-> saved.file, mode |-> saved.mode, requests |-> sent]

get_valid_token(file, mode, t, net, io, cmode) ==
    LET tokens == load_token_cache(file)
        quiet(out) == [out |-> out, file |-> file, mode |-> mode, requests |-> <<>>]
    IN IF tokens = None \/ DOMAIN tokens.d = {} THEN quiet(Return(None))
       ELSE IF is_token_expired(tokens.d, t)
       THEN LET refresh_token == Get(tokens.d, "refresh_token")
            IN IF ~Truthy(refresh_token) THEN quiet(Return(None))
               ELSE LET new_tokens ==
                            refresh_access_token(refresh_token.s, file, mode, t, net, io, cmode)
                    IN [out |-> IF new_tokens.ret = None THEN Return(None)
                                ELSE IF "access_token" \in DOMAIN new_tokens.ret.d
                                THEN Return(Str(new_tokens.ret.d["access_token"]))
                                ELSE Raise("KeyError"),
                        file |-> new_tokens.file, mode |-> new_tokens.mode,
                        requests |-> new_tokens.requests]
       ELSE IF "access_token" \in DOMAIN tokens.d
       THEN quiet(Return(Str(tokens.d["access_token"])))
       ELSE quiet(Raise("KeyError"))

----------------------------------------------------------------------------
(* CSRF state tokens *)

STATE_TOKEN_EXPIRY == 600

StateTokens == {"s1", "s2"}

\* >= where the code has >: an entry exactly 600 seconds old is pruned
ExpiredTokens_AtBoundary(map, current_time) ==
    {k \in DOMAIN map : current_time - map[k] >= STATE_TOKEN_EXPIRY}

\* [k for k, v in _state_tokens.items() if current_time - v > STATE_TOKEN_EXPIRY]
ExpiredTokens(map, current_time) ==
    {k \in DOMAIN map : current_time - map[k] > STATE_TOKEN_EXPIRY}

\* token is the value secrets.token_urlsafe(32) returns
generate_state_token(map, current_time, token) ==
    LET kept == (DOMAIN map \ ExpiredTokens(map, current_time)) \cup {token}
    IN [token |-> token,
        map |-> [k \in kept |-> IF k = token THEN current_time ELSE map[k]]]

\* the entry is looked up and left in the map
validate_state_token_NoPop(map, t, token) ==
    IF token \notin DOMAIN map
    THEN [ret |-> FALSE, map |-> map]
    ELSE [ret |-> ~(t - map[token] > 600), map |-> map]

\* >= where the code has >
validate_state_token_Strict(map, t, token) ==
    IF token \notin DOMAIN map
    THEN [ret |-> FALSE, map |-> map]
    ELSE [ret |-> ~(t - map[token] >= 600),
          map |-> [k \in DOMAIN map \ {token} |-> map[k]]]

\* the entry is removed only when the token is accepted
validate_state_token_KeepExpired(map, t, token) ==
    IF token \notin DOMAIN map
    THEN [ret |-> FALSE, map |-> map]
    ELSE IF t - map[token] > STATE_TOKEN_EXPIRY
    THEN [ret |-> FALSE, map |-> map]
    ELSE [ret |-> TRUE, map |-> [k \in DOMAIN map \ {token} |-> map[k]]]

validate_state_token(map, t, token) ==
    IF token \notin DOMAIN map
    THEN [ret |-> FALSE, map |-> map]
    ELSE LET timestamp == map[token]
             popped == [k \in DOMAIN map \ {token} |-> map[k]]
         IN [ret |-> ~(t - timestamp > STATE_TOKEN_EXPIRY), map |-> popped]

----------------------------------------------------------------------------
(* HTML escaping *)

\* html.escape(s, quote=True), one character at a time
EscapeChar(c) ==
    CASE c = "&"  -> <<"&", "a", "m", "p", ";">>
      [] c = "<"  -> <<"&", "l", "t", ";">>
      [] c = ">"  -> <<"&", "g", "t", ";">>
      [] c = "\"" -> <<"&", "q", "u", "o", "t", ";">>
      [] c = "'"  -> <<"&", "#", "x", "2", "7", ";">>
      [] OTHER    -> <<c>>

RECURSIVE HtmlEscape(_)
HtmlEscape(s) == IF s = <<>> THEN <<>> ELSE EscapeChar(Head(s)) \o HtmlEscape(Tail(s))

\* the text is put into the page as it came
escape_html_Raw(text) == IF TruthyText(text) THEN text.s ELSE <<>>

escape_html(text) == IF TruthyText(text) THEN HtmlEscape(text.s) ELSE <<>>

----------------------------------------------------------------------------
(* The authorization callback server *)

ExchangeRequest(code) ==
    [url |-> "https://login.microsoftonline.com/common/oauth2/v2.0/token",
     grant_type |-> "authorization_code", credential |-> code]

exchange_code_for_tokens(code, file, mode, t, net, io, cmode) ==
    LET sent == <<ExchangeRequest(code)>>
        fail(e) == [out |-> Raise(e), file |-> file, mode |-> mode, requests |-> sent]
    IN IF net.kind = "network_error" THEN fail("RequestException")
       ELSE IF "error" \in DOMAIN net.data THEN fail("HTTPException")
       ELSE IF "expires_in" \notin DOMAIN net.data THEN fail("KeyError")
       ELSE LET result == WithExpiresAt(net.data, t + net.data["expires_in"])
                written == WriteTokenFile(result, file, mode, io, cmode)
            IN [out |-> IF written.ok THEN Return([kind |-> "dict", d |-> result])
                        ELSE Raise("OSError"),
                file |-> written.file, mode |-> written.mode, requests |-> sent]

\* f"{settings.MS_AUTH_SERVER_URL}/auth/callback"
RedirectUri == "http://localhost:3333/auth/callback"

\* " ".join(settings.MS_SCOPES)
Scope == "offline_access User.Read Mail.Read Mail.Send Calendars.Read Calendars.ReadWrite"

AuthorizeUrl(params) ==
    [url |-> "https://login.microsoftonline.com/common/oauth2/v2.0/authorize",
     params |-> params]

\* "and" where the code has "or": only both credentials unset count as unconfigured
auth_BothUnset(conf, map, t, token) ==
    IF conf.MS_CLIENT_ID = "" /\ conf.MS_CLIENT_SECRET = ""
    THEN [response |-> [status |-> 500, page |-> "Configuration Error"], map |-> map]
    ELSE LET gen == generate_state_token(map, t, token)
         IN [response |-> [status |-> 307, page |-> "redirect",
                           location |-> AuthorizeUrl([client_id |-> conf.MS_CLIENT_ID,
                                                      response_type |-> "code",
                                                      redirect_uri |-> RedirectUri,
                                                      scope |-> Scope,
                                                      response_mode |-> "query",
                                                      state |-> gen.token])],
             map |-> gen.map]

\* token is the value secrets.token_urlsafe(32) returns if the handler asks for one
auth(conf, map, t, token) ==
    IF conf.MS_CLIENT_ID = "" \/ conf.MS_CLIENT_SECRET = ""
    THEN [response |-> [status |-> 500, page |-> "Configuration Error"], map |-> map]
    ELSE LET gen == generate_state_token(map, t, token)
             auth_params == [client_id |-> conf.MS_CLIENT_ID, response_type |-> "code",
                             redirect_uri |-> RedirectUri, scope |-> Scope,
                             response_mode |-> "query", state |-> gen.token]
         IN [response |-> [status |-> 307, page |-> "redirect",
                           location |-> AuthorizeUrl(auth_params)],
             map |-> gen.map]

NoDescription == <<"No description provided">>

auth_callback(code, state, error, error_description, map, file, mode, t, net, io, cmode) ==
    LET csrf == IF Truthy(state)
                THEN [called |-> TRUE] @@ validate_state_token(map, t, state.s)
                ELSE [called |-> FALSE, ret |-> FALSE, map |-> map]
        untouched(resp) == [response |-> resp, csrf |-> csrf, map |-> csrf.map,
                            file |-> file, mode |-> mode, requests |-> <<>>]
    IN IF csrf.called /\ ~csrf.ret
       THEN untouched([status |-> 403, page |-> "Security Error"])
       ELSE IF TruthyText(error)
       THEN untouched([status |-> 400, page |-> "Authentication Error",
                       safe_error |-> escape_html(error),
                       safe_description |-> IF TruthyText(error_description)
                                            THEN escape_html(error_description)
                                            ELSE NoDescription])
       ELSE IF ~Truthy(code)
       THEN untouched([status |-> 400, page |-> "Missing Authorization Code"])
       ELSE LET ex == exchange_code_for_tokens(code.s, file, mode, t, net, io, cmode)
            IN [response |-> IF ex.out.kind = "return"
                             THEN [status |-> 200, page |-> "Authentication Successful"]
                             ELSE [status |-> 500, page |-> "Token Exchange Error",
                                   err |-> ex.out.exc],
                csrf |-> csrf, map |-> csrf.map,
                file |-> ex.file, mode |-> ex.mode, requests |-> ex.requests]

----------------------------------------------------------------------------
(* The state machine *)

Unused == [kind |-> "unused"]

\* no call is in progress: the last one has handed its result to its caller
Idle == [op |-> "idle"]

Configs ==
    {[MS_CLIENT_ID |-> "id", MS_CLIENT_SECRET |-> "secret"],
     [MS_CLIENT_ID |-> "", MS_CLIENT_SECRET |-> "secret"],
     [MS_CLIENT_ID |-> "id", MS_CLIENT_SECRET |-> ""]}

Codes == {None, Str("c1")}

States == {None, Str("")} \cup {Str(k) : k \in StateTokens}

\* the error and error_description query parameters the provider redirects with
ErrorParams ==
    {<<None, None>>,
     <<Str(<<"<", "a", ">", "&">>), None>>,
     <<Str(<<"<", "a", ">", "&">>), Str(<<"\"", "'">>)>>}

\* the two requests the callback server is followed through, statement by statement
Handlers == {"h1", "h2"}

\* the two processes that are followed through the credential file's code at a time
Workers == {"w1", "w2"}

\* a call that has not started
Ready == [pc |-> "ready"]

\* the event loop is between two coroutines
Free == "free"

\* a process that has made no call yet
Fresh == [pc |-> "ready", calls |-> 0]

Init ==
    /\ now = 0
    /\ ticks = 0
    /\ tokenFile = Missing
    /\ fileMode = 0
    /\ state_tokens = <<>>
    /\ issued = {}
    /\ pending = <<>>
    /\ consumed = {}
    /\ settings \in Configs
    /\ last = Idle
    /\ loop = Free
    /\ handlers = [h \in Handlers |-> Ready]
    /\ writers = [w \in Workers |-> Fresh]
    /\ search = Ready

\* time passes between two calls
Tick ==
    /\ last = Idle
    /\ ticks < MaxTicks
    /\ \E d \in Steps : now' = now + d
    /\ ticks' = ticks + 1
    /\ UNCHANGED <<tokenFile, fileMode, state_tokens, issued, pending, consumed, settings, last>>
    /\ UNCHANGED stepVars

\* the caller has taken the result of the last call; the next call can start
Finish ==
    /\ last # Idle
    /\ last' = Idle
    /\ UNCHANGED <<now, ticks, tokenFile, fileMode, state_tokens, issued, pending, consumed, settings>>
    /\ UNCHANGED stepVars

\* The provider's answer is drawn only when the call sends a request, the outcome of
\* the file write only when the call reaches the write, the creation mode only when
\* the write creates the file.
NetChoices(sends) == IF sends THEN TokenResponses ELSE {NetworkError}

IoChoices(writes) == IF writes THEN IoOutcomes ELSE {"ok"}

ModeChoices(file) == IF file = Missing THEN CreateModes ELSE {TOKEN_FILE_MODE}

GetValidToken ==
    /\ last = Idle
    /\ \E net \in NetChoices(get_valid_token(tokenFile, fileMode, now, NetworkError,
                                             "ok", TOKEN_FILE_MODE).requests # <<>>) :
       \E io \in IoChoices(get_valid_token(tokenFile, fileMode, now, net, "ok", TOKEN_FILE_MODE)
                           # get_valid_token(tokenFile, fileMode, now, net, "open_fail",
                                             TOKEN_FILE_MODE)) :
       \E cmode \in ModeChoices(tokenFile) :
           LET r == get_valid_token(tokenFile, fileMode, now, net, io, cmode)
           IN /\ tokenFile' = r.file
              /\ fileMode' = r.mode
              /\ last' = [op |-> "get_valid_token", at |-> now, file |-> tokenFile,
                          mode |-> fileMode, out |-> r.out, requests |-> r.requests,
                          net |-> IF r.requests = <<>> THEN Unused ELSE net, io |-> io]
              /\ UNCHANGED <<now, ticks, state_tokens, issued, pending, consumed, settings>>
              /\ UNCHANGED stepVars

ExchangeCodeForTokens ==
    /\ last = Idle
    /\ \E net \in TokenResponses :
       \E io \in IoChoices(exchange_code_for_tokens("c1", tokenFile, fileMode, now, net, "ok",
                                                    TOKEN_FILE_MODE)
                           # exchange_code_for_tokens("c1", tokenFile, fileMode, now, net,
                                                      "open_fail", TOKEN_FILE_MODE)) :
       \E cmode \in ModeChoices(tokenFile) :
           LET r == exchange_code_for_tokens("c1", tokenFile, fileMode, now, net, io, cmode)
           IN /\ tokenFile' = r.file
              /\ fileMode' = r.mode
              /\ last' = [op |-> "exchange_code_for_tokens", at |-> now, file |-> tokenFile,
                          mode |-> fileMode, out |-> r.out, requests |-> r.requests,
                          net |-> net, io |-> io]
              /\ UNCHANGED <<now, ticks, state_tokens, issued, pending, consumed, settings>>
              /\ UNCHANGED stepVars

Auth ==
    /\ last = Idle
    /\ \E token \in StateTokens \ issued :
           LET r == auth(settings, state_tokens, now, token)
           IN /\ state_tokens' = r.map
              /\ issued' = IF r.response.status = 307 THEN issued \cup {token} ELSE issued
              /\ pending' = IF r.response.status = 307
                            THEN [k \in DOMAIN pending \cup {token} |->
                                    IF k = token THEN now ELSE pending[k]]
                            ELSE pending
              /\ last' = [op |-> "auth", at |-> now, map |-> state_tokens,
                          response |-> r.response]
              /\ UNCHANGED <<now, ticks, tokenFile, fileMode, consumed, settings>>
              /\ UNCHANGED stepVars

AuthCallback ==
    /\ last = Idle
    /\ \E code \in Codes, state \in States, ep \in ErrorParams :
       LET error == ep[1]
           error_description == ep[2]
       IN
       \E net \in NetChoices(auth_callback(code, state, error, error_description, state_tokens,
                                           tokenFile, fileMode, now, NetworkError, "ok",
                                           TOKEN_FILE_MODE).requests # <<>>) :
       \E io \in IoChoices(net # NetworkError /\
                           auth_callback(code, state, error, error_description, state_tokens,
                                         tokenFile, fileMode, now, net, "ok", TOKEN_FILE_MODE)
                           # auth_callback(code, state, error, error_description, state_tokens,
                                           tokenFile, fileMode, now, net, "open_fail",
                                           TOKEN_FILE_MODE)) :
       \E cmode \in ModeChoices(tokenFile) :
           LET r == auth_callback(code, state, error, error_description,
                                  state_tokens, tokenFile, fileMode, now, net, io, cmode)
           IN /\ state_tokens' = r.map
              /\ tokenFile' = r.file
              /\ fileMode' = r.mode
              /\ consumed' = IF r.csrf.called /\ r.csrf.ret
                             THEN consumed \cup {state.s} ELSE consumed
              /\ pending' = IF r.csrf.called
                            THEN [k \in DOMAIN pending \ {state.s} |-> pending[k]]
                            ELSE pending
              /\ last' = [op |-> "auth_callback", at |-> now, map |-> state_tokens,
                          file |-> tokenFile, mode |-> fileMode,
                          code |-> code, state |-> state, error |-> error,
                          error_description |-> error_description,
                          csrf |-> [called |-> r.csrf.called, ret |-> r.csrf.ret,
                                    before |-> Truthy(state) /\ state.s \in consumed,
                                    first |-> Truthy(state) /\ state.s \in DOMAIN pending,
                                    age |-> IF Truthy(state) /\ state.s \in DOMAIN pending
                                            THEN now - pending[state.s] ELSE 0],
                          response |-> r.response, requests |-> r.requests,
                          net |-> IF r.requests = <<>> THEN Unused ELSE net, io |-> io]
              /\ UNCHANGED <<now, ticks, issued, settings>>
              /\ UNCHANGED stepVars

\* The token lifecycle: the callback server's code exchange fills the credential file,
\* tool invocations ask get_valid_token for a token.
NextToken ==
    \/ Tick
    \/ Finish
    \/ ExchangeCodeForTokens
    \/ GetValidToken

SpecToken == Init /\ [][NextToken]_vars

\* The authorization callback server: GET /auth and GET /auth/callback.
NextAuth ==
    \/ Tick
    \/ Finish
    \/ Auth
    \/ AuthCallback

SpecAuth == Init /\ [][NextAuth]_vars

----------------------------------------------------------------------------
(* Token lifecycle: properties of get_valid_token, under SpecToken *)

\* the last call was get_valid_token and it found a JSON object with a field in the file
GotRecord == last.op = "get_valid_token" /\ last.file.kind = "json"

Stored == last.file.data

\* the stored record's expires_at lies more than 300 seconds after the call
StoredFresh == "expires_at" \in DOMAIN Stored /\ Stored["expires_at"] > last.at + 300

\* C1: a stored record with expires_at > now + 300 makes get_valid_token send no
\* request and leave the credential file as it is, and the call returns exactly the
\* stored access_token.
C1_FreshTokenReturnedWithoutRefresh ==
    (GotRecord /\ StoredFresh) =>
        /\ last.requests = <<>>
        /\ tokenFile = last.file
        /\ fileMode = last.mode
        /\ "access_token" \in DOMAIN Stored =>
                last.out = Return(Str(Stored["access_token"]))

\* a record that is one second short of the refresh window is returned as stored
C1_Witness ==
    /\ GotRecord
    /\ "expires_at" \in DOMAIN Stored /\ Stored["expires_at"] = last.at + 301
    /\ "access_token" \in DOMAIN Stored
    /\ last.out = Return(Str(Stored["access_token"]))

\* C2 as stated: a stored record with expires_at <= now + 300, or without expires_at,
\* makes get_valid_token send a refresh-token request, and the stored access_token is
\* never returned directly.
C2_ExpiredAlwaysRequestsRefresh ==
    (GotRecord /\ ~StoredFresh) =>
        /\ Len(last.requests) = 1
        /\ last.requests[1].grant_type = "refresh_token"
        /\ last.out.kind = "return" /\ last.out.value # None => last.net.kind = "json"

\* C2 as amended: for such a record the stored access_token is never returned
\* directly; one refresh-token request carrying the stored refresh_token is sent when
\* the record holds a non-empty refresh_token, and every token returned is the one of
\* the provider's answer; without a refresh_token no request is sent and the call
\* returns absent.
C2_ExpiredNeverReturnedDirectly ==
    (GotRecord /\ ~StoredFresh) =>
        IF "refresh_token" \in DOMAIN Stored /\ Stored["refresh_token"] # ""
        THEN /\ Len(last.requests) = 1
             /\ last.requests[1].grant_type = "refresh_token"
             /\ last.requests[1].credential = Stored["refresh_token"]
             /\ last.out.kind = "return" /\ last.out.value # None =>
                    /\ last.net.kind = "json"
                    /\ "access_token" \in DOMAIN last.net.data
                    /\ last.out.value = Str(last.net.data["access_token"])
        ELSE /\ last.requests = <<>>
             /\ last.out = Return(None)
             /\ tokenFile = last.file

\* a record exactly 300 seconds before its expiry is refreshed, and the call returns
\* the provider's new token, not the stored one
C2_Witness ==
    /\ GotRecord
    /\ "expires_at" \in DOMAIN Stored /\ Stored["expires_at"] = last.at + 300
    /\ "access_token" \in DOMAIN Stored
    /\ Len(last.requests) = 1
    /\ last.out.kind = "return" /\ last.out.value # None
    /\ last.out.value # Str(Stored["access_token"])

\* C3: get_valid_token never raises: whatever the credential file holds and however
\* the refresh request ends, it returns an access token or absent.
C3_GetValidTokenNeverRaises ==
    last.op = "get_valid_token" => last.out.kind = "return"

\* the provider accepted the refresh request and save_token_cache succeeded
RefreshSucceeded ==
    /\ GotRecord
    /\ last.requests # <<>>
    /\ last.net.kind = "json"
    /\ "error" \notin DOMAIN last.net.data
    /\ last.io = "ok"

\* C4: after a successful refresh the persisted record holds the new access_token, a
\* refresh_token (the new one, or the stored one carried over) and
\* expires_at = time of the refresh + expires_in.
C4_RefreshPersistsFullRecord ==
    (RefreshSucceeded /\ {"access_token", "expires_in"} \subseteq DOMAIN last.net.data) =>
        /\ tokenFile.kind = "json"
        /\ {"access_token", "refresh_token", "expires_at"} \subseteq DOMAIN tokenFile.data
        /\ tokenFile.data["access_token"] = last.net.data["access_token"]
        /\ tokenFile.data["refresh_token"] =
                (IF "refresh_token" \in DOMAIN last.net.data
                 THEN last.net.data["refresh_token"] ELSE Stored["refresh_token"])
        /\ tokenFile.data["expires_at"] = last.at + last.net.data["expires_in"]

----------------------------------------------------------------------------
(* The authorization callback server: properties under SpecAuth *)

Callback == last.op = "auth_callback"

\* the tokens of the map that are not older than 600 seconds at time t
Active(map, t) == {k \in DOMAIN map : t - map[k] <= 600}

\* the callback's state parameter is a value that is in the active CSRF map
StateActive ==
    last.state.kind = "str" /\ last.state.s \in Active(last.map, last.at)

\* the callback sent nothing to the provider and left the credential file alone
NoExchange ==
    /\ last.requests = <<>>
    /\ tokenFile = last.file
    /\ fileMode = last.mode

\* C5: a CSRF state token is single-use: once validate_state_token has returned true
\* for a token, every later validate_state_token on it returns false.
C5_StateTokenSingleUse ==
    (Callback /\ last.csrf.called /\ last.csrf.before) => ~last.csrf.ret

\* a second callback with a token that an earlier callback consumed
C5_Witness ==
    /\ Callback /\ last.csrf.called /\ last.csrf.before
    /\ ~last.csrf.ret
    /\ last.response.status = 403

\* C6: the first validate_state_token on a token issued at T, made at time t, returns
\* true exactly if t - T <= 600.
C6_StateTokenExpiryBoundary ==
    (Callback /\ last.csrf.called /\ last.csrf.first) =>
        (last.csrf.ret <=> last.csrf.age <= 600)

\* a token is accepted exactly 600 seconds after it was issued
C6_Witness ==
    /\ Callback /\ last.csrf.called /\ last.csrf.first
    /\ last.csrf.age = 600
    /\ last.csrf.ret

\* C7: a callback whose state value is not in the active CSRF map is answered 403,
\* sends no token exchange request and does not write the credential file, whatever
\* its other parameters are.
C7_InactiveStateRejected ==
    (Callback /\ last.state.kind = "str" /\ ~StateActive) =>
        /\ last.response.status = 403
        /\ NoExchange

\* C8 as stated: a callback with an error parameter and no code is answered 400 with
\* the escaped error text, sends no token exchange request and does not write the
\* credential file.
C8_ErrorCallbackAnswered400 ==
    (Callback /\ last.error.kind = "str" /\ last.code = None) =>
        /\ last.response.status = 400
        /\ NoExchange

RawSpecials == {"<", ">", "\"", "'"}

\* C8 as amended: a callback with a non-empty error parameter and no code sends no
\* token exchange request and does not write the credential file; it is answered 403
\* when its state is non-empty and not in the active CSRF map, and otherwise 400 with
\* the HTML-escaped error text.
C8_ErrorCallbackAfterCsrfCheck ==
    (Callback /\ TruthyText(last.error) /\ last.code = None) =>
        /\ NoExchange
        /\ IF Truthy(last.state) /\ ~StateActive
           THEN last.response.status = 403
           ELSE /\ last.response.status = 400
                /\ last.response.page = "Authentication Error"
                /\ last.response.safe_error = HtmlEscape(last.error.s)
                /\ \A i \in 1..Len(last.response.safe_error) :
                        last.response.safe_error[i] \notin RawSpecials
                /\ \A i \in 1..Len(last.response.safe_description) :
                        last.response.safe_description[i] \notin RawSpecials

\* an error callback with a valid state, whose error text holds markup, is shown escaped
C8_Witness ==
    /\ Callback /\ TruthyText(last.error) /\ last.code = None
    /\ StateActive
    /\ \E i \in 1..Len(last.error.s) : last.error.s[i] = "<"
    /\ last.response.status = 400
    /\ last.response.safe_error # last.error.s

\* the callback passed the CSRF and error checks and carries a code
ReachesExchange ==
    /\ Callback
    /\ ~Truthy(last.state) \/ last.csrf.ret
    /\ ~TruthyText(last.error)
    /\ Truthy(last.code)

ProviderError == last.net.kind = "json" /\ "error" \in DOMAIN last.net.data

ExchangeSucceeded ==
    /\ last.net.kind = "json"
    /\ "error" \notin DOMAIN last.net.data
    /\ "expires_in" \in DOMAIN last.net.data
    /\ last.io = "ok"

\* C9: such a callback is answered 200 only if the exchange succeeded, and then the
\* credential file holds the provider's tokens with expires_at = now + expires_in and
\* mode 0600; every exchange failure is answered 500; a provider-reported error
\* leaves the stored record as it was.
C9_ExchangeOutcome ==
    ReachesExchange =>
        /\ Len(last.requests) = 1
        /\ last.requests[1].grant_type = "authorization_code"
        /\ last.requests[1].credential = last.code.s
        /\ last.response.status \in {200, 500}
        /\ last.response.status = 200 <=> ExchangeSucceeded
        /\ last.response.status = 200 =>
                /\ tokenFile.kind = "json"
                /\ DOMAIN tokenFile.data = DOMAIN last.net.data \cup {"expires_at"}
                /\ \A k \in DOMAIN last.net.data : tokenFile.data[k] = last.net.data[k]
                /\ tokenFile.data["expires_at"] = last.at + last.net.data["expires_in"]
                /\ fileMode = 384
        /\ ProviderError => tokenFile = last.file /\ fileMode = last.mode

\* a first exchange creates the credential file and the callback is answered 200
C9_Witness ==
    /\ ReachesExchange
    /\ last.csrf.ret
    /\ last.file = Missing
    /\ last.response.status = 200
    /\ tokenFile.kind = "json"

\* C10: GET /auth with client id or secret unset answers 500 and leaves the CSRF map
\* unchanged; with both set it adds exactly one new token to the map and redirects
\* with state equal to that token.
C10_AuthIssuesOneToken ==
    last.op = "auth" =>
        IF settings.MS_CLIENT_ID = "" \/ settings.MS_CLIENT_SECRET = ""
        THEN /\ last.response.status = 500
             /\ state_tokens = last.map
        ELSE /\ last.response.status = 307
             /\ DOMAIN state_tokens \ DOMAIN last.map = {last.response.location.params.state}
             /\ state_tokens[last.response.location.params.state] = last.at

\* a redirect issued while another token is still in the map
C10_Witness ==
    /\ last.op = "auth"
    /\ last.response.status = 307
    /\ DOMAIN last.map # {}
    /\ DOMAIN last.map \subseteq DOMAIN state_tokens

----------------------------------------------------------------------------
(* The callback server's event loop: /auth/callback followed statement by statement *)

\* auth and auth_callback are coroutines (async def) of the one event loop uvicorn.run
\* starts: the loop runs a coroutine until it awaits and only then turns to another.
\* Awaits(pc) tells whether the handler awaits before the statement at position pc.

\* the handler gives the loop away between the membership test and the pop
Awaits_BeforePop(pc) == pc = "pop"

\* auth_callback, validate_state_token and exchange_code_for_tokens hold no await
Awaits(pc) == FALSE

InFlight == {"csrf", "pop", "rest"}

\* the loop can run the next statement of request h
Runs(h) == loop \in {Free, h}

\* who holds the loop after request h has moved to position pc
LoopAfter(h, pc) == IF pc = "done" \/ Awaits(pc) THEN Free ELSE h

\* the requests the two handlers are given: the provider's redirect after a login,
\* with and without a code, with each state value
RaceRequests ==
    {[code |-> code, state |-> state, error |-> None, error_description |-> None] :
        code \in Codes, state \in States}

\* what the provider answers to the token exchange of a request in the race
RaceResponses ==
    {NetworkError, Json([access_token |-> "a1", refresh_token |-> "r1", expires_in |-> 900])}

\* the request is accepted and its handler is scheduled; h1 names the request that
\* arrives first
Arrive(h) ==
    /\ handlers[h] = Ready
    /\ h = "h2" => handlers["h1"] # Ready
    /\ \E req \in RaceRequests :
           handlers' = [handlers EXCEPT ![h] =
               [pc |-> "csrf", code |-> req.code, state |-> req.state,
                error |-> req.error, error_description |-> req.error_description,
                at |-> now,
                active |-> Truthy(req.state) /\ req.state.s \in DOMAIN state_tokens
                           /\ now - state_tokens[req.state.s] <= STATE_TOKEN_EXPIRY,
                raced |-> \E g \in Handlers \ {h} :
                              /\ handlers[g].pc \in InFlight
                              /\ handlers[g].state = req.state]]
    /\ UNCHANGED <<now, ticks, tokenFile, fileMode, state_tokens, issued, pending,
                   consumed, settings, last, loop, writers, search>>

\* what the handler has become when it returns or raises
Done(local, passed, unhandled, response) ==
    [pc |-> "done", code |-> local.code, state |-> local.state, at |-> local.at,
     active |-> local.active, raced |-> local.raced, passed |-> passed,
     unhandled |-> unhandled, response |-> response, ended |-> now]

\* "if state and ..." and, inside validate_state_token, "if token not in _state_tokens"
Lookup(h) ==
    /\ handlers[h].pc = "csrf"
    /\ Runs(h)
    /\ LET local == handlers[h]
           next == IF ~Truthy(local.state) THEN [local EXCEPT !.pc = "rest"]
                   ELSE IF local.state.s \notin DOMAIN state_tokens
                   THEN Done(local, FALSE, FALSE, [status |-> 403, page |-> "Security Error"])
                   ELSE [local EXCEPT !.pc = "pop"]
       IN /\ handlers' = [handlers EXCEPT ![h] = next]
          /\ loop' = LoopAfter(h, next.pc)
          /\ pending' = IF Truthy(local.state)
                        THEN [k \in DOMAIN pending \ {local.state.s} |-> pending[k]]
                        ELSE pending
    /\ UNCHANGED <<now, ticks, tokenFile, fileMode, state_tokens, issued, consumed,
                   settings, last, writers, search>>

\* "timestamp = _state_tokens.pop(token)" and the comparison with STATE_TOKEN_EXPIRY;
\* pop raises KeyError when the key is gone, and nothing in the handler catches it
Pop(h) ==
    /\ handlers[h].pc = "pop"
    /\ Runs(h)
    /\ LET local == handlers[h]
           token == local.state.s
           gone == token \notin DOMAIN state_tokens
           expired == ~gone /\ now - state_tokens[token] > STATE_TOKEN_EXPIRY
           next == IF gone
                   THEN Done(local, FALSE, TRUE,
                             [status |-> 500, page |-> "Internal Server Error"])
                   ELSE IF expired
                   THEN Done(local, FALSE, FALSE, [status |-> 403, page |-> "Security Error"])
                   ELSE [local EXCEPT !.pc = "rest"]
       IN /\ handlers' = [handlers EXCEPT ![h] = next]
          /\ loop' = LoopAfter(h, next.pc)
          /\ state_tokens' = [k \in DOMAIN state_tokens \ {token} |-> state_tokens[k]]
          /\ consumed' = IF ~gone /\ ~expired THEN consumed \cup {token} ELSE consumed
    /\ UNCHANGED <<now, ticks, tokenFile, fileMode, issued, pending, settings, last,
                   writers, search>>

\* the handler from "if error:" on: what auth_callback does once the CSRF check is
\* behind it, which is what it does for a request without state; the file write of the
\* token exchange succeeds
Rest(h) ==
    /\ handlers[h].pc = "rest"
    /\ Runs(h)
    /\ LET local == handlers[h]
           run(net, cmode) ==
               auth_callback(local.code, None, local.error, local.error_description,
                             state_tokens, tokenFile, fileMode, now, net, "ok", cmode)
           sends == run(NetworkError, TOKEN_FILE_MODE).requests # <<>>
       IN \E net \in (IF sends THEN RaceResponses ELSE {NetworkError}) :
          \E cmode \in ModeChoices(tokenFile) :
              LET r == run(net, cmode)
              IN /\ handlers' = [handlers EXCEPT ![h] =
                        Done(local, Truthy(local.state), FALSE, r.response)]
                 /\ loop' = LoopAfter(h, "done")
                 /\ tokenFile' = r.file
                 /\ fileMode' = r.mode
    /\ UNCHANGED <<now, ticks, state_tokens, issued, pending, consumed, settings, last,
                   writers, search>>

\* GET /auth is a coroutine of the same loop and holds no await
AuthOnLoop ==
    /\ loop = Free
    /\ Auth

\* time passes while no request is waiting or running: a handler is done long before
\* the clock advances by one of Steps
TickOnLoop ==
    /\ loop = Free
    /\ \A h \in Handlers : handlers[h].pc \notin InFlight
    /\ Tick

NextLoop ==
    \/ TickOnLoop
    \/ Finish
    \/ AuthOnLoop
    \/ \E h \in Handlers : Arrive(h)
    \/ \E h \in Handlers : Lookup(h)
    \/ \E h \in Handlers : Pop(h)
    \/ \E h \in Handlers : Rest(h)

SpecLoop == Init /\ [][NextLoop]_vars

----------------------------------------------------------------------------
(* The event loop: properties under SpecLoop *)

\* both requests have been answered, they carried the same state value, one arrived
\* while the other was in flight, the token was in the active CSRF map at that moment,
\* and the clock has not advanced since
SameTokenRace(g, h) ==
    /\ g # h
    /\ handlers[g].pc = "done" /\ handlers[h].pc = "done"
    /\ handlers[g].state = handlers[h].state
    /\ handlers[h].raced /\ handlers[h].active
    /\ handlers[g].ended = handlers[h].at /\ handlers[h].ended = handlers[h].at

\* C11: of two /auth/callback requests that carry the same valid state token and are
\* handled concurrently, exactly one passes the CSRF validation and goes on to the
\* rest of the handler, the other is answered 403, and neither ends in an unhandled
\* error.
C11_ConcurrentCallbacksOnePasses ==
    \A g, h \in Handlers :
        SameTokenRace(g, h) =>
            /\ ~handlers[g].unhandled /\ ~handlers[h].unhandled
            /\ handlers[g].passed # handlers[h].passed
            /\ \A k \in {g, h} :
                   IF handlers[k].passed
                   THEN handlers[k].response.status # 403
                   ELSE handlers[k].response.status = 403

\* two such requests, each with a code: the first is answered 200 after the token
\* exchange, the second 403
C11_Witness ==
    \E g, h \in Handlers :
        /\ SameTokenRace(g, h)
        /\ handlers[g].passed /\ handlers[g].response.status = 200
        /\ handlers[h].code = Str("c1") /\ handlers[h].response.status = 403

----------------------------------------------------------------------------
(* The credential file under concurrent use: get_valid_token and                *)
(* exchange_code_for_tokens followed statement by statement                     *)

\* The callback server and every MCP server process are separate processes that
\* share the credential file; the code takes no lock, so their statements interleave
\* freely. Every write succeeds here (failed writes are studied under SpecToken); what
\* varies is the order of the steps.

\* the order json.dump writes the keys of a record in
KeyOrder ==
    <<"access_token", "refresh_token", "expires_in", "expires_at", "error",
      "error_description">>

RECURSIVE Members(_, _)
Members(d, i) ==
    IF i > Len(KeyOrder) THEN <<>>
    ELSE IF KeyOrder[i] \in DOMAIN d
    THEN <<KeyOrder[i], ToString(d[KeyOrder[i]])>> \o Members(d, i + 1)
    ELSE Members(d, i + 1)

\* json.dump(tokens, f): the text of the document, in units of one brace, key or value
\* (the indentation exchange_code_for_tokens asks for is left out)
Serialize(d) == <<"{">> \o Members(d, 1) \o <<"}">>

\* a file whose content json.load does not accept; an empty file is Raw(<<>>)
Raw(bytes) == [kind |-> "raw", bytes |-> bytes]

\* the content of the file, in the same units
Bytes(file) ==
    IF file.kind = "json" THEN Serialize(file.data)
    ELSE IF file.kind = "raw" THEN file.bytes
    ELSE <<>>

\* open(path, "w") creates the file or cuts it to length 0
Truncated == Raw(<<>>)

\* the writer's text goes to offset 0 of whatever the file holds when the buffer is
\* flushed; json.load accepts the result only if nothing follows the document
Written(file, tokens) ==
    LET text == Serialize(tokens)
        old == Bytes(file)
        content == text \o SubSeq(old, Len(text) + 1, Len(old))
    IN IF content = text THEN Json(tokens) ELSE Raw(content)

\* what the provider answers a process that is followed through the file's code: an
\* error, a full token response, a token response without refresh_token
FileResponses ==
    {Json([error |-> "invalid_grant", error_description |-> "d"]),
     Json([access_token |-> "a1", refresh_token |-> "r1", expires_in |-> 900]),
     Json([access_token |-> "a2", expires_in |-> 900])}

\* the writes completed by calls that have not returned yet
Dumped(w) == {q \in Workers \ {w} : "order" \in DOMAIN writers[q]}

\* the writes of other processes that stand between their open() and their dump
Overlapped(w) ==
    {[prior |-> writers[q].prior, new |-> writers[q].result] :
        q \in {q \in Workers \ {w} : writers[q].pc = "dump"}}

\* process w can start a call: each process makes MaxCalls calls at most, and w1 names
\* the process that starts first
CanStart(w) ==
    /\ writers[w].pc = "ready"
    /\ writers[w].calls < MaxCalls
    /\ w = "w2" => writers["w1"] # Fresh

\* get_valid_token up to the refresh: load_token_cache, is_token_expired and
\* tokens.get("refresh_token")
Load(w) ==
    /\ CanStart(w)
    /\ LET tokens == load_token_cache(tokenFile)
           call == [op |-> "get_valid_token", calls |-> writers[w].calls + 1,
                    loaded |-> tokens, overlapped |-> Overlapped(w)]
           done(out) == call @@ [pc |-> "done", out |-> out]
           next == IF tokens = None \/ DOMAIN tokens.d = {} THEN done(Return(None))
                   ELSE IF is_token_expired(tokens.d, now)
                   THEN IF ~Truthy(Get(tokens.d, "refresh_token")) THEN done(Return(None))
                        ELSE call @@ [pc |-> "post"]
                   ELSE IF "access_token" \in DOMAIN tokens.d
                   THEN done(Return(Str(tokens.d["access_token"])))
                   ELSE done(Raise("KeyError"))
       IN writers' = [writers EXCEPT ![w] = next]
    /\ UNCHANGED <<now, ticks, tokenFile, fileMode, state_tokens, issued, pending,
                   consumed, settings, last, loop, handlers, search>>

\* the callback server has a code to exchange
BeginExchange(w) ==
    /\ CanStart(w)
    /\ writers' = [writers EXCEPT ![w] =
            [op |-> "exchange_code_for_tokens", calls |-> writers[w].calls + 1,
             pc |-> "post"]]
    /\ UNCHANGED <<now, ticks, tokenFile, fileMode, state_tokens, issued, pending,
                   consumed, settings, last, loop, handlers, search>>

\* requests.post(token_url, ...), response.json(), the test for "error" and
\* result["expires_at"] = ...
Post(w) ==
    /\ writers[w].pc = "post"
    /\ \E net \in FileResponses :
        LET call == writers[w]
            refresh == call.op = "get_valid_token"
            done(out) == [call EXCEPT !.pc = "done"] @@ [out |-> out]
            next ==
                IF net.kind # "json"
                THEN done(IF refresh THEN Return(None) ELSE Raise("RequestException"))
                ELSE IF "error" \in DOMAIN net.data
                THEN done(IF refresh THEN Return(None) ELSE Raise("HTTPException"))
                ELSE IF ~refresh /\ "expires_in" \notin DOMAIN net.data
                THEN done(Raise("KeyError"))
                ELSE [call EXCEPT !.pc = "open"] @@
                     [result |-> WithExpiresAt(net.data,
                                    now + (IF "expires_in" \in DOMAIN net.data
                                           THEN net.data["expires_in"] ELSE 3600))]
        IN writers' = [writers EXCEPT ![w] = next]
    /\ UNCHANGED <<now, ticks, tokenFile, fileMode, state_tokens, issued, pending,
                   consumed, settings, last, loop, handlers, search>>

\* with open(token_path, "w") as f:
Open(w) ==
    /\ writers[w].pc = "open"
    /\ \E cmode \in ModeChoices(tokenFile) :
           fileMode' = IF tokenFile = Missing THEN cmode ELSE fileMode
    /\ tokenFile' = Truncated
    /\ writers' = [writers EXCEPT ![w] =
            [writers[w] EXCEPT !.pc = "dump"] @@ [prior |-> tokenFile]]
    /\ UNCHANGED <<now, ticks, state_tokens, issued, pending, consumed, settings, last,
                   loop, handlers, search>>

\* json.dump(result, f) and the close of the file, which flushes the text
Dump(w) ==
    /\ writers[w].pc = "dump"
    /\ tokenFile' = Written(tokenFile, writers[w].result)
    /\ writers' = [writers EXCEPT ![w] =
            [writers[w] EXCEPT !.pc = "chmod"] @@ [order |-> 1 + Cardinality(Dumped(w))]]
    /\ UNCHANGED <<now, ticks, fileMode, state_tokens, issued, pending, consumed,
                   settings, last, loop, handlers, search>>

\* os.chmod(token_path, TOKEN_FILE_MODE) and the return
Chmod(w) ==
    /\ writers[w].pc = "chmod"
    /\ fileMode' = TOKEN_FILE_MODE
    /\ LET call == writers[w]
           out == IF call.op = "exchange_code_for_tokens"
                  THEN Return([kind |-> "dict", d |-> call.result])
                  ELSE IF "access_token" \in DOMAIN call.result
                  THEN Return(Str(call.result["access_token"]))
                  ELSE Raise("KeyError")
       IN writers' = [writers EXCEPT ![w] = [call EXCEPT !.pc = "done"] @@ [out |-> out]]
    /\ UNCHANGED <<now, ticks, tokenFile, state_tokens, issued, pending, consumed,
                   settings, last, loop, handlers, search>>

\* the caller has the result
Leave(w) ==
    /\ writers[w].pc = "done"
    /\ writers' = [writers EXCEPT ![w] = [pc |-> "ready", calls |-> writers[w].calls]]
    /\ UNCHANGED <<now, ticks, tokenFile, fileMode, state_tokens, issued, pending,
                   consumed, settings, last, loop, handlers, search>>

NextFile ==
    \/ Tick
    \/ \E w \in Workers : Load(w)
    \/ \E w \in Workers : BeginExchange(w)
    \/ \E w \in Workers : Post(w)
    \/ \E w \in Workers : Open(w)
    \/ \E w \in Workers : Dump(w)
    \/ \E w \in Workers : Chmod(w)
    \/ \E w \in Workers : Leave(w)

SpecFile == Init /\ [][NextFile]_vars

----------------------------------------------------------------------------
(* The credential file under concurrent use: properties under SpecFile *)

\* C12: a load_token_cache that runs while another process is between the open() and
\* the end of its write of the credential file sees the complete record the file held
\* before that write or the complete new record, and never nothing when a record
\* existed before the write began.
C12_NoTornReads ==
    \A w \in Workers :
        (writers[w].pc # "ready" /\ writers[w].op = "get_valid_token") =>
            \A o \in writers[w].overlapped :
                o.prior.kind = "json" =>
                    writers[w].loaded \in {[kind |-> "dict", d |-> o.prior.data],
                                           [kind |-> "dict", d |-> o.new]}

\* C13: whenever the credential file exists and holds token data its permission bits
\* are 0600, the interval between the write and the chmod and the first creation of
\* the file included.
C13_TokenFileAlwaysOwnerOnly ==
    tokenFile.kind = "json" => fileMode = TOKEN_FILE_MODE

\* two get_valid_token calls have loaded the same expired record, the provider has
\* answered the refresh request of each with a token response, and both have returned
BothRefreshed(g, h) ==
    /\ g # h
    /\ \A k \in {g, h} :
           /\ writers[k].pc = "done"
           /\ writers[k].op = "get_valid_token"
           /\ "result" \in DOMAIN writers[k]
           /\ "access_token" \in DOMAIN writers[k].result
    /\ writers[g].loaded = writers[h].loaded

\* C15: when two get_valid_token calls interleave on the same expired record and the
\* provider accepts both refresh requests, each call returns the access token of its
\* answer, and once both have finished the credential file holds exactly the record
\* the last writer wrote.
C15_ConcurrentRefreshLastWriteWins ==
    \A g, h \in Workers :
        (BothRefreshed(g, h) /\ writers[g].order < writers[h].order) =>
            /\ \A k \in {g, h} :
                   writers[k].out = Return(Str(writers[k].result["access_token"]))
            /\ tokenFile = Json(writers[h].result)

----------------------------------------------------------------------------
(* save_token_cache: properties under SpecToken *)

\* the last get_valid_token call got a token response to its refresh request and
\* passed it to save_token_cache
SaveCalled ==
    /\ GotRecord
    /\ last.requests # <<>>
    /\ last.net.kind = "json"
    /\ "error" \notin DOMAIN last.net.data

\* C14: save_token_cache never raises, and whenever it reports failure (the write or
\* the permission-set failed) the credential file still holds the complete record that
\* was stored before the call.
C14_FailedSaveKeepsPriorRecord ==
    (SaveCalled /\ last.io # "ok") =>
        /\ last.out = Return(None)
        /\ tokenFile = last.file

----------------------------------------------------------------------------
(* The Graph request client (utils/graph_api.py) *)

GRAPH_API_ENDPOINT == "https://graph.microsoft.com/v1.0/"

\* a response body that json.loads accepts, given by the value it parses to
JsonText(v) == [kind |-> "json_text", value |-> v]

\* a response body that json.loads rejects: empty, HTML, plain text
PlainText(t) == [kind |-> "text", s |-> t]

json_loads(body) ==
    IF body.kind = "json_text" THEN Return(body.value) ELSE Raise("JSONDecodeError")

\* session.request(...) raised: no connection, a timeout
ClientError == [kind |-> "client_error"]

Response(status, body) == [kind |-> "response", status |-> status, body |-> body]

\* Exception("UNAUTHORIZED")
Unauthorized == [msg |-> "UNAUTHORIZED"]

\* Exception(f"Error parsing API response: {str(e)}")
ParseError(e) == [msg |-> "Error parsing API response: ", detail |-> e]

\* Exception(f"API call failed with status {response.status}: {response_data}")
ApiFailed(status, body) ==
    [msg |-> "API call failed with status ", status |-> status, body |-> body]

\* the request session.request is given; the body is sent only with POST, PATCH and PUT
GraphRequest(access_token, method, path, data, query_params) ==
    [method |-> method, base |-> GRAPH_API_ENDPOINT, path |-> path,
     query |-> query_params, authorization |-> <<"Bearer", access_token>>,
     json |-> IF data # None /\ DOMAIN data.d # {} /\ method \in {"POST", "PATCH", "PUT"}
              THEN data ELSE None]

\* query_params.pop("$filter", None), done whenever the mapping is given and not empty:
\* the caller's mapping after the call
PopFilter(query_params) ==
    IF query_params = None \/ DOMAIN query_params = {} THEN query_params
    ELSE [k \in DOMAIN query_params \ {"filter"} |-> query_params[k]]

\* status 401 is treated like every other status outside 200..299
call_graph_api_No401(access_token, method, path, data, query_params, http) ==
    [request |-> GraphRequest(access_token, method, path, data, query_params),
     query_params |-> PopFilter(query_params),
     out |-> IF http.kind = "client_error" THEN Raise([msg |-> "ClientError"])
             ELSE IF 200 <= http.status /\ http.status < 300
             THEN LET parsed == json_loads(http.body)
                  IN IF parsed.kind = "return" THEN parsed ELSE Raise(ParseError(parsed.exc))
             ELSE Raise(ApiFailed(http.status, http.body))]

\* http is what the Graph API does with the request
call_graph_api(access_token, method, path, data, query_params, http) ==
    [request |-> GraphRequest(access_token, method, path, data, query_params),
     query_params |-> PopFilter(query_params),
     out |-> IF http.kind = "client_error" THEN Raise([msg |-> "ClientError"])
             ELSE IF 200 <= http.status /\ http.status < 300
             THEN LET parsed == json_loads(http.body)
                  IN IF parsed.kind = "return" THEN parsed ELSE Raise(ParseError(parsed.exc))
             ELSE IF http.status = 401 THEN Raise(Unauthorized)
             ELSE Raise(ApiFailed(http.status, http.body))]

----------------------------------------------------------------------------
(* The progressive search (mail/search.py) *)

EMAIL_SELECT_FIELDS ==
    "id,subject,from,toRecipients,ccRecipients,receivedDateTime,bodyPreview,hasAttachments,importance,isRead"

\* params[key] = value
SetKey(params, key, value) ==
    [k \in DOMAIN params \cup {key} |-> IF k = key THEN value ELSE params[k]]

\* {"$top": count, "$select": EMAIL_SELECT_FIELDS, "$orderby": "receivedDateTime desc"}
BasicParams(count) ==
    [top |-> count, select |-> EMAIL_SELECT_FIELDS, orderby |-> "receivedDateTime desc"]

\* one clause of a $search string: text, field:"text" or "text"
Kql(field, text, quoted) == [field |-> field, text |-> text, quoted |-> quoted]

\* the $filter conditions, which " and ".join puts together
add_boolean_filters(params, filter_terms) ==
    LET filter_conditions ==
            (IF filter_terms.hasAttachments THEN <<"hasAttachments eq true">> ELSE <<>>)
            \o (IF filter_terms.unreadOnly THEN <<"isRead eq false">> ELSE <<>>)
    IN IF filter_conditions # <<>> THEN SetKey(params, "filter", filter_conditions)
       ELSE params

\* the $search clauses, which " ".join puts together
build_search_params(search_terms, filter_terms, count) ==
    LET kql_terms ==
            (IF search_terms["query"] # ""
             THEN <<Kql("", search_terms["query"], FALSE)>> ELSE <<>>)
            \o (IF search_terms["subject"] # ""
                THEN <<Kql("subject", search_terms["subject"], TRUE)>> ELSE <<>>)
            \o (IF search_terms["from"] # ""
                THEN <<Kql("from", search_terms["from"], TRUE)>> ELSE <<>>)
            \o (IF search_terms["to"] # ""
                THEN <<Kql("to", search_terms["to"], TRUE)>> ELSE <<>>)
        params == IF kql_terms # <<>> THEN SetKey(BasicParams(count), "search", kql_terms)
                  ELSE BasicParams(count)
    IN add_boolean_filters(params, filter_terms)

\* the general query is tried first
search_priority_QueryFirst == <<"query", "subject", "from", "to">>

search_priority == <<"subject", "from", "to", "query">>

\* simplified_params of the single-term search for term
SingleTermParams(term, search_terms, filter_terms, count) ==
    add_boolean_filters(
        SetKey(BasicParams(count), "search",
               <<Kql(IF term = "query" THEN "" ELSE term, search_terms[term], TRUE)>>),
        filter_terms)

\* f"single-term-{term}"
SingleTermLabel(term) ==
    CASE term = "subject" -> "single-term-subject"
      [] term = "from"    -> "single-term-from"
      [] term = "to"      -> "single-term-to"
      [] term = "query"   -> "single-term-query"

\* a search counts as successful only with two results or more
HasResults_MoreThanOne(response) ==
    "value" \in DOMAIN response /\ Len(response["value"]) > 1

\* response.get("value") and len(response["value"]) > 0
HasResults(response) ==
    "value" \in DOMAIN response /\ Len(response["value"]) > 0

\* the filters-only attempt is skipped
AfterTerm_SkipFilters(search_terms, filter_terms, i) ==
    LET later == {k \in (i + 1)..Len(search_priority) :
                      search_terms[search_priority[k]] # ""}
    IN IF later # {}
       THEN [pc |-> "single", i |-> CHOOSE k \in later : \A j \in later : k <= j]
       ELSE [pc |-> "recent", i |-> Len(search_priority)]

\* where progressive_search goes on after the attempt for search_priority[i] (after
\* the combined search for i = 0) has not returned: the next non-empty term, then the
\* boolean filters if one is set, then the recent emails
AfterTerm(search_terms, filter_terms, i) ==
    LET later == {k \in (i + 1)..Len(search_priority) :
                      search_terms[search_priority[k]] # ""}
    IN IF later # {}
       THEN [pc |-> "single", i |-> CHOOSE k \in later : \A j \in later : k <= j]
       ELSE IF filter_terms.hasAttachments \/ filter_terms.unreadOnly
       THEN [pc |-> "filters", i |-> Len(search_priority)]
       ELSE [pc |-> "recent", i |-> Len(search_priority)]

\* the count is taken before "recent-emails" is appended
SearchInfo_CountBeforeAppend(search_attempts, search_terms, filter_terms) ==
    [attemptsCount |-> Len(search_attempts) - 1, strategies |-> search_attempts,
     originalTerms |-> search_terms, filterTerms |-> filter_terms]

\* response["_searchInfo"]
SearchInfo(search_attempts, search_terms, filter_terms) ==
    [attemptsCount |-> Len(search_attempts), strategies |-> search_attempts,
     originalTerms |-> search_terms, filterTerms |-> filter_terms]

\* the arguments handle_search_emails passes on
SearchTerms ==
    [query : {"", "q"}, from : {"", "bob"}, to : {"", "amy"}, subject : {"", "Invoice"}]

FilterTerms == [hasAttachments : BOOLEAN, unreadOnly : BOOLEAN]

\* handle_search_emails(count=10)
Count == 10

\* the JSON object {}
EmptyObject == [k \in {} |-> None]

\* what the Graph API does with one search request: no message, one, two, an object
\* without a value, or a rejected token
SearchOutcomes ==
    {Response(200, JsonText([value |-> <<>>])),
     Response(200, JsonText(EmptyObject)),
     Response(200, JsonText([value |-> <<"m1">>])),
     Response(200, JsonText([value |-> <<"m1", "m2">>])),
     Response(401, PlainText(""))}

\* one more attempt: its label, the request it sends and what comes back
Attempt(call, label, r) ==
    [call EXCEPT !.search_attempts = Append(@, label),
                 !.requests = Append(@, r.request),
                 !.answers = Append(@, r.out)]

\* the call is over
Ends(call, out) == [call EXCEPT !.pc = "done"] @@ [out |-> out]

\* an error of the attempt is not caught: it ends the call
GoesOn_Propagates(call, i) ==
    LET answer == call.answers[Len(call.answers)]
        next == AfterTerm(call.search_terms, call.filter_terms, i)
    IN IF answer.kind = "raise" THEN [call EXCEPT !.pc = "done"] @@ [out |-> answer]
       ELSE [call EXCEPT !.pc = next.pc, !.i = next.i]

\* the call goes on with the attempt AfterTerm names
GoesOn(call, i) ==
    LET next == AfterTerm(call.search_terms, call.filter_terms, i)
    IN [call EXCEPT !.pc = next.pc, !.i = next.i]

graph(params, http) == call_graph_api("a1", "GET", "me/messages", None, params, http)

\* progressive_search is called
ProgressiveSearch ==
    /\ search = Ready
    /\ last = Idle
    /\ \E search_terms \in SearchTerms, filter_terms \in FilterTerms :
           search' = [pc |-> "combined", i |-> 0, search_terms |-> search_terms,
                      filter_terms |-> filter_terms, search_attempts |-> <<>>,
                      requests |-> <<>>, answers |-> <<>>]
    /\ UNCHANGED <<now, ticks, tokenFile, fileMode, state_tokens, issued, pending,
                   consumed, settings, last, loop, handlers, writers>>

\* 1. the combined search
CombinedSearch ==
    /\ search.pc = "combined"
    /\ \E http \in SearchOutcomes :
        LET params == build_search_params(search.search_terms, search.filter_terms, Count)
            r == graph(params, http)
            tried == Attempt(search, "combined-search", r)
        IN search' = IF r.out.kind = "return" /\ HasResults(r.out.value)
                     THEN Ends(tried, r.out)
                     ELSE GoesOn(tried, 0)
    /\ UNCHANGED <<now, ticks, tokenFile, fileMode, state_tokens, issued, pending,
                   consumed, settings, last, loop, handlers, writers>>

\* 2. the search with the term search_priority[i] alone
SingleTermSearch ==
    /\ search.pc = "single"
    /\ \E http \in SearchOutcomes :
        LET term == search_priority[search.i]
            params == SingleTermParams(term, search.search_terms, search.filter_terms, Count)
            r == graph(params, http)
            tried == Attempt(search, SingleTermLabel(term), r)
        IN search' = IF r.out.kind = "return" /\ HasResults(r.out.value)
                     THEN Ends(tried, r.out)
                     ELSE GoesOn(tried, search.i)
    /\ UNCHANGED <<now, ticks, tokenFile, fileMode, state_tokens, issued, pending,
                   consumed, settings, last, loop, handlers, writers>>

\* 3. the boolean filters alone: whatever comes back is returned
FiltersOnlySearch ==
    /\ search.pc = "filters"
    /\ \E http \in SearchOutcomes :
        LET params == add_boolean_filters(BasicParams(Count), search.filter_terms)
            r == graph(params, http)
            tried == Attempt(search, "boolean-filters-only", r)
        IN search' = IF r.out.kind = "return"
                     THEN Ends(tried, r.out)
                     ELSE [tried EXCEPT !.pc = "recent"]
    /\ UNCHANGED <<now, ticks, tokenFile, fileMode, state_tokens, issued, pending,
                   consumed, settings, last, loop, handlers, writers>>

\* 4. the recent emails, with the note about the attempts; an error of this request is
\* not caught
RecentEmails ==
    /\ search.pc = "recent"
    /\ \E http \in SearchOutcomes :
        LET r == graph(BasicParams(Count), http)
            tried == Attempt(search, "recent-emails", r)
        IN search' = IF r.out.kind = "return"
                     THEN Ends(tried, Return(SetKey(r.out.value, "_searchInfo",
                              SearchInfo(tried.search_attempts, search.search_terms,
                                         search.filter_terms))))
                     ELSE Ends(tried, r.out)
    /\ UNCHANGED <<now, ticks, tokenFile, fileMode, state_tokens, issued, pending,
                   consumed, settings, last, loop, handlers, writers>>

\* handle_search_emails has the result
SearchReturns ==
    /\ search.pc = "done"
    /\ search' = Ready
    /\ UNCHANGED <<now, ticks, tokenFile, fileMode, state_tokens, issued, pending,
                   consumed, settings, last, loop, handlers, writers>>

\* the statuses and bodies a Graph response can have
HttpOutcomes ==
    {ClientError} \cup
    {Response(status, body) :
        status \in {199, 200, 204, 299, 300, 400, 401, 404},
        body \in {JsonText([value |-> <<>>]), PlainText(""), PlainText("UNAUTHORIZED")}}

GraphCalls ==
    {[method |-> "GET", path |-> "me/messages", data |-> None,
      query_params |-> BasicParams(Count)],
     [method |-> "GET", path |-> "me/messages", data |-> None,
      query_params |-> add_boolean_filters(BasicParams(Count),
                           [hasAttachments |-> TRUE, unreadOnly |-> FALSE])],
     [method |-> "POST", path |-> "me/sendMail",
      data |-> [kind |-> "dict", d |-> [saveToSentItems |-> "true"]],
      query_params |-> None],
     [method |-> "DELETE", path |-> "me/messages/m1", data |-> None,
      query_params |-> None]}

\* one call of call_graph_api by a tool, while no search is under way
CallGraphApi ==
    /\ last = Idle
    /\ search = Ready
    /\ \E c \in GraphCalls, http \in HttpOutcomes :
        LET r == call_graph_api("a1", c.method, c.path, c.data, c.query_params, http)
        IN last' = [op |-> "call_graph_api", http |-> http, request |-> r.request,
                    query_params |-> c.query_params, after |-> r.query_params,
                    out |-> r.out]
    /\ UNCHANGED <<now, ticks, tokenFile, fileMode, state_tokens, issued, pending,
                   consumed, settings>>
    /\ UNCHANGED stepVars

NextGraph ==
    \/ Finish
    \/ CallGraphApi
    \/ ProgressiveSearch
    \/ CombinedSearch
    \/ SingleTermSearch
    \/ FiltersOnlySearch
    \/ RecentEmails
    \/ SearchReturns

SpecGraph == Init /\ [][NextGraph]_vars

----------------------------------------------------------------------------
(* The Graph request client: properties under SpecGraph *)

\* C16: call_graph_api returns a value only for a response with status 200..299 whose
\* body parses as JSON; a 401 response raises the error UNAUTHORIZED, which no other
\* outcome raises; every other status raises an error that holds the status code and
\* the raw response body.
C16_GraphResponseHandling ==
    last.op = "call_graph_api" =>
        /\ last.out.kind = "return" =>
               /\ last.http.kind = "response"
               /\ last.http.status \in 200..299
               /\ last.http.body.kind = "json_text"
               /\ last.out.value = last.http.body.value
        /\ last.out = Raise(Unauthorized) <=>
               (last.http.kind = "response" /\ last.http.status = 401)
        /\ (last.http.kind = "response" /\ last.http.status \notin (200..299) \cup {401}) =>
               /\ last.out.kind = "raise"
               /\ last.out.exc.status = last.http.status
               /\ last.out.exc.body = last.http.body

\* a 401 whose body is the text of another error, and a 400 with that same text
C16_Witness ==
    /\ last.op = "call_graph_api"
    /\ last.http.kind = "response"
    /\ last.http.body = PlainText("UNAUTHORIZED")
    /\ last.http.status = 400
    /\ last.out.kind = "raise"
    /\ last.out.exc # Unauthorized

----------------------------------------------------------------------------
(* The progressive search: properties under SpecGraph *)

Searching == search.pc # "ready"

\* the search terms that are not empty, in the order subject, from, to, query
NonEmptyTerms(search_terms) ==
    LET given(t) == search_terms[t] # ""
    IN SelectSeq(<<"subject", "from", "to", "query">>, given)

AnyFilter(filter_terms) == filter_terms.hasAttachments \/ filter_terms.unreadOnly

Strategy(kind, term) == [kind |-> kind, term |-> term]

\* the strategies of one call in their order: combined, one per non-empty term,
\* filters-only if a boolean filter is set, recent emails
StrategyPlan(search_terms, filter_terms) ==
    LET terms == NonEmptyTerms(search_terms)
    IN <<Strategy("combined", "")>>
       \o [i \in 1..Len(terms) |-> Strategy("single", terms[i])]
       \o (IF AnyFilter(filter_terms) THEN <<Strategy("filters", "")>> ELSE <<>>)
       \o <<Strategy("recent", "")>>

PlanOfCall == StrategyPlan(search.search_terms, search.filter_terms)

\* the $search clause that names the term t
ClauseOf(t, search_terms) ==
    <<IF t = "query" THEN "" ELSE t, search_terms[t]>>

Clauses(request) ==
    IF "search" \in DOMAIN request.query
    THEN {<<request.query["search"][i].field, request.query["search"][i].text>> :
              i \in 1..Len(request.query["search"])}
    ELSE {}

\* request is the request of strategy s for these terms and filters
IsRequestOf(request, s, search_terms, filter_terms) ==
    LET terms == NonEmptyTerms(search_terms)
        filtered == "filter" \in DOMAIN request.query
    IN /\ request.method = "GET"
       /\ CASE s.kind = "combined" ->
                 /\ Clauses(request) =
                        {ClauseOf(terms[i], search_terms) : i \in 1..Len(terms)}
                 /\ filtered <=> AnyFilter(filter_terms)
            [] s.kind = "single" ->
                 /\ Clauses(request) = {ClauseOf(s.term, search_terms)}
                 /\ Len(request.query["search"]) = 1
            [] s.kind = "filters" ->
                 /\ Clauses(request) = {}
                 /\ filtered
            [] s.kind = "recent" ->
                 /\ Clauses(request) = {}
                 /\ ~filtered

\* the answer is a response with at least one result
Found(answer) ==
    /\ answer.kind = "return"
    /\ "value" \in DOMAIN answer.value
    /\ Len(answer.value["value"]) >= 1

\* the answer is a response with no result
FoundNone(answer) ==
    /\ answer.kind = "return"
    /\ ~Found(answer)

\* C17: the requests one call of progressive_search has issued are a prefix of:
\* combined, single-term (subject, from, to, query; non-empty terms only), filters-only
\* (only with a boolean filter set), recent emails; and a combined or single-term
\* request that returned at least one result is the last one, its response returned.
C17_RequestsArePrefixOfPlan ==
    Searching =>
        /\ Len(search.requests) <= Len(PlanOfCall)
        /\ \A i \in 1..Len(search.requests) :
               /\ IsRequestOf(search.requests[i], PlanOfCall[i],
                              search.search_terms, search.filter_terms)
               /\ (PlanOfCall[i].kind \in {"combined", "single"}
                   /\ Found(search.answers[i])) =>
                      /\ i = Len(search.requests)
                      /\ search.pc = "done"
                      /\ search.out = search.answers[i]

\* two terms and a filter are given, and the second single-term search finds mail
C17_Witness ==
    /\ Searching
    /\ search.pc = "done"
    /\ Len(NonEmptyTerms(search.search_terms)) >= 2
    /\ AnyFilter(search.filter_terms)
    /\ Len(search.requests) = 3
    /\ Found(search.answers[3])

\* C18: when the combined search returns zero results and the search for the first
\* non-empty term in priority order returns n >= 1 results, progressive_search returns
\* exactly those results and the attempts recorded are combined-search and
\* single-term-<term>.
C18_FirstSingleTermHit ==
    (/\ Searching
     /\ search.pc = "done"
     /\ NonEmptyTerms(search.search_terms) # <<>>
     /\ Len(search.requests) >= 2
     /\ FoundNone(search.answers[1])
     /\ IsRequestOf(search.requests[2],
                    Strategy("single", NonEmptyTerms(search.search_terms)[1]),
                    search.search_terms, search.filter_terms)
     /\ Found(search.answers[2])) =>
        /\ search.out.kind = "return"
        /\ "value" \in DOMAIN search.out.value
        /\ search.out.value["value"] = search.answers[2].value["value"]
        /\ search.search_attempts =
               <<"combined-search",
                 SingleTermLabel(NonEmptyTerms(search.search_terms)[1])>>

\* subject is empty, from is not: the search by sender finds one message
C18_Witness ==
    /\ Searching
    /\ search.pc = "done"
    /\ search.search_terms["subject"] = ""
    /\ search.search_terms["from"] # ""
    /\ Len(search.requests) = 2
    /\ FoundNone(search.answers[1])
    /\ search.answers[2] = Return([value |-> <<"m1">>])
    /\ search.out = search.answers[2]
    /\ search.search_attempts = <<"combined-search", "single-term-from">>

\* no answer to a combined or single-term request so far has a result
NothingFound ==
    \A i \in 1..Len(search.requests) :
        PlanOfCall[i].kind \in {"combined", "single"} => ~Found(search.answers[i])

\* the place of the filters-only request in the call
FiltersAt == Len(NonEmptyTerms(search.search_terms)) + 2

\* C19: with a boolean filter set and no result from the combined and single-term
\* searches, the filters-only request is issued; if it completes, its response is
\* returned, even with zero results, and the recent-emails request is not issued.
C19_FiltersOnlyIsFinal ==
    (/\ Searching
     /\ AnyFilter(search.filter_terms)
     /\ search.pc \in {"recent", "done"}
     /\ NothingFound) =>
        /\ Len(search.requests) >= FiltersAt
        /\ IsRequestOf(search.requests[FiltersAt], Strategy("filters", ""),
                       search.search_terms, search.filter_terms)
        /\ search.answers[FiltersAt].kind = "return" =>
               /\ search.pc = "done"
               /\ search.out = search.answers[FiltersAt]
               /\ Len(search.requests) = FiltersAt

\* the filters-only request comes back without a message and that is the result
C19_Witness ==
    /\ Searching
    /\ search.pc = "done"
    /\ AnyFilter(search.filter_terms)
    /\ NonEmptyTerms(search.search_terms) # <<>>
    /\ NothingFound
    /\ Len(search.requests) = FiltersAt
    /\ search.answers[FiltersAt] = Return([value |-> <<>>])
    /\ search.out = Return([value |-> <<>>])

\* the label of a strategy in the list of attempts
StrategyLabel(s) ==
    CASE s.kind = "combined" -> "combined-search"
      [] s.kind = "single"   -> SingleTermLabel(s.term)
      [] s.kind = "filters"  -> "boolean-filters-only"
      [] s.kind = "recent"   -> "recent-emails"

\* the result comes from the recent-emails request
ReturnedByRecent ==
    /\ Searching
    /\ search.pc = "done"
    /\ search.out.kind = "return"
    /\ Len(search.requests) = Len(PlanOfCall)

\* C20: the result the recent-emails request returns carries search metadata whose
\* strategies lists every strategy attempted in the call, in order, ending with
\* recent-emails, and whose attemptsCount is the length of that list.
C20_RecentEmailsMetadata ==
    ReturnedByRecent =>
        LET info == search.out.value["_searchInfo"]
        IN /\ info.strategies =
                  [i \in 1..Len(search.requests) |-> StrategyLabel(PlanOfCall[i])]
           /\ info.strategies[Len(info.strategies)] = "recent-emails"
           /\ info.attemptsCount = Len(info.strategies)

\* four attempts come before the recent emails
C20_Witness ==
    /\ ReturnedByRecent
    /\ Len(search.requests) = 5
    /\ AnyFilter(search.filter_terms)
    /\ search.out.value["_searchInfo"].attemptsCount = 5

\* the strategy the call is about to attempt is the one after the i-th of its plan
Proceeds(i) ==
    /\ i < Len(PlanOfCall)
    /\ search.pc = PlanOfCall[i + 1].kind
    /\ search.pc = "single" => search_priority[search.i] = PlanOfCall[i + 1].term

\* C21: an error (401 included) of the combined, a single-term or the filters-only
\* request never leaves progressive_search and never keeps the next applicable strategy
\* from being attempted; only an error of the recent-emails request reaches the caller.
C21_OnlyRecentEmailsErrorPropagates ==
    Searching =>
        /\ \A i \in 1..Len(search.requests) :
               (PlanOfCall[i].kind # "recent" /\ search.answers[i].kind = "raise") =>
                   \/ i < Len(search.requests)
                   \/ Proceeds(i)
        /\ (search.pc = "done" /\ search.out.kind = "raise") =>
               /\ Len(search.requests) = Len(PlanOfCall)
               /\ search.out = search.answers[Len(search.requests)]
        /\ (Len(search.requests) = Len(PlanOfCall)
            /\ search.answers[Len(search.requests)].kind = "raise") =>
               /\ search.pc = "done"
               /\ search.out = search.answers[Len(search.requests)]

\* every request of a call with two terms and a filter is answered 401
C21_Witness ==
    /\ Searching
    /\ search.pc = "done"
    /\ Len(search.requests) = 5
    /\ AnyFilter(search.filter_terms)
    /\ \A i \in 1..5 : search.answers[i] = Raise(Unauthorized)
    /\ search.out = Raise(Unauthorized)

\* C29: call_graph_api leaves the caller's query_params mapping unchanged: after the
\* call, successful or failed, it holds the same keys and values, $filter included, as
\* before.
C29_QueryParamsUnchanged ==
    last.op = "call_graph_api" => last.after = last.query_params

----------------------------------------------------------------------------
(* The identity provider's endpoints and the CSRF state map: properties under SpecAuth *)

ConsumersTokenUrl == "https://login.microsoftonline.com/consumers/oauth2/v2.0/token"

ConsumersAuthorizeUrl == "https://login.microsoftonline.com/consumers/oauth2/v2.0/authorize"

\* C23: every request to the identity provider (the /auth authorize redirect, the code
\* exchange, the refresh request) targets the login.microsoftonline.com /consumers/
\* endpoint.
C23_ConsumersEndpoint ==
    /\ (last.op = "auth" /\ last.response.status = 307) =>
           last.response.location.url = ConsumersAuthorizeUrl
    /\ last.op \in {"auth_callback", "exchange_code_for_tokens", "get_valid_token"} =>
           \A i \in 1..Len(last.requests) : last.requests[i].url = ConsumersTokenUrl

\* C24: a token exchange request is sent, and the credential file written by the callback
\* server, only for a callback whose state was issued by an earlier GET /auth, is at
\* most 600 seconds old and was not consumed before; a callback with a code and no
\* state, or an empty state, never reaches the exchange.
C24_ExchangeOnlyForIssuedState ==
    (Callback /\ ~NoExchange) =>
        /\ Truthy(last.state)
        /\ last.csrf.first
        /\ last.csrf.age <= 600
        /\ ~last.csrf.before

\* the entry of key is taken out of map
Without(map, key) == [k \in DOMAIN map \ {key} |-> map[k]]

Validated == Callback /\ last.csrf.called

\* C25 as stated: validate_state_token removes an entry from the CSRF state map if and
\* only if it returns true; every call that returns false leaves the map unchanged.
C25_RemovesOnlyWhenTrue ==
    Validated =>
        IF last.csrf.ret
        THEN last.state.s \in DOMAIN last.map /\ state_tokens = Without(last.map, last.state.s)
        ELSE state_tokens = last.map

\* C25 as amended: validate_state_token removes the entry of its token, and no other
\* entry, whenever the token is in the map, also when it returns false because the
\* token has expired; it returns true only for a token that was in the map, and a call
\* with an unknown or already consumed token returns false and leaves the map unchanged.
C25_RemovesWheneverKnown ==
    Validated =>
        /\ state_tokens = Without(last.map, last.state.s)
        /\ last.csrf.ret => last.state.s \in DOMAIN last.map
        /\ last.state.s \notin DOMAIN last.map => (~last.csrf.ret /\ state_tokens = last.map)

\* an expired token is refused and its entry is gone
C25_Witness ==
    /\ Validated
    /\ last.state.s \in DOMAIN last.map
    /\ last.at - last.map[last.state.s] > 600
    /\ ~last.csrf.ret
    /\ last.state.s \notin DOMAIN state_tokens

Generated == last.op = "auth" /\ last.response.status = 307

\* C26: right after every generate_state_token call the CSRF state map holds the new
\* token and no entry issued more than 600 seconds before the call; the entries at most
\* 600 seconds old are all retained.
C26_IssuancePrunesExpired ==
    Generated =>
        /\ last.response.location.params.state \in DOMAIN state_tokens
        /\ \A k \in DOMAIN state_tokens : last.at - state_tokens[k] <= 600
        /\ \A k \in DOMAIN last.map :
               last.at - last.map[k] <= 600 =>
                   (k \in DOMAIN state_tokens /\ state_tokens[k] = last.map[k])

\* the second token is issued 601 seconds after the first, which is pruned
C26_Witness ==
    /\ Generated
    /\ \E k \in DOMAIN last.map :
           /\ last.at - last.map[k] = 601
           /\ k \notin DOMAIN state_tokens
    /\ last.response.location.params.state \in DOMAIN state_tokens

----------------------------------------------------------------------------
(* The tool handlers (auth/__init__.py, auth/tools.py, mail/*.py, cal/create.py) *)

MAX_RESULT_COUNT == 50

Min(a, b) == IF a <= b THEN a ELSE b

\* "Authentication required. Please use the '<tool>' tool first."
AuthRequired(tool) == [msg |-> "Authentication required", tool |-> tool]

\* f"{prefix}{str(e)}"
Failed(prefix, e) == [msg |-> prefix, detail |-> e]

\* a handler that returns message without a Graph request
NoRequest(message) == [out |-> Return(message), graph |-> <<>>]

\* token is what get_valid_token gives: a token, None, or the exception it raises
ensure_authenticated(token) ==
    IF token.kind = "raise" THEN Raise([msg |-> token.exc])
    ELSE IF ~Truthy(token.value) THEN Return(None)
    ELSE token

\* the well-known folder names; other names are looked up with Graph requests of
\* their own and are not among the folders drawn here
resolve_folder_path(folder_name) ==
    CASE folder_name = ""        -> "me/messages"
      [] folder_name = "inbox"   -> "me/messages"
      [] folder_name = "drafts"  -> "me/mailFolders/drafts/messages"
      [] folder_name = "sent"    -> "me/mailFolders/sentItems/messages"
      [] folder_name = "deleted" -> "me/mailFolders/deletedItems/messages"
      [] folder_name = "junk"    -> "me/mailFolders/junkemail/messages"
      [] folder_name = "archive" -> "me/mailFolders/archive/messages"

\* the text Graph answers for a message id of another mailbox; the handlers look for
\* "doesn't belong to the targeted mailbox" in the error text
NotInMailbox == "The specified object doesn't belong to the targeted mailbox."

MentionsMailbox(e) ==
    /\ "body" \in DOMAIN e
    /\ e.body = PlainText(NotInMailbox)

\* the test `if not access_token` is left out
handle_list_emails_NoTokenCheck(folder, count, token, http) ==
    LET access_token == ensure_authenticated(token)
    IN IF access_token.kind = "raise"
       THEN NoRequest(Failed("Error listing emails: ", access_token.exc))
       ELSE LET r == call_graph_api(access_token.value, "GET",
                                    resolve_folder_path(folder), None,
                                    BasicParams(Min(count, MAX_RESULT_COUNT)), http)
            IN [out |-> Return(IF r.out.kind = "raise"
                               THEN Failed("Error listing emails: ", r.out.exc)
                               ELSE IF ~HasResults(r.out.value)
                               THEN [msg |-> "No emails found in", folder |-> folder]
                               ELSE [msg |-> "Found emails in", folder |-> folder,
                                     n |-> Len(r.out.value["value"])]),
                graph |-> <<r.request>>]

handle_list_emails(folder, count, token, http) ==
    LET access_token == ensure_authenticated(token)
    IN IF access_token.kind = "raise"
       THEN NoRequest(Failed("Error listing emails: ", access_token.exc))
       ELSE IF ~Truthy(access_token.value) THEN NoRequest(AuthRequired("authenticate"))
       ELSE LET r == call_graph_api(access_token.value, "GET",
                                    resolve_folder_path(folder), None,
                                    BasicParams(Min(count, MAX_RESULT_COUNT)), http)
            IN [out |-> Return(IF r.out.kind = "raise"
                               THEN Failed("Error listing emails: ", r.out.exc)
                               ELSE IF ~HasResults(r.out.value)
                               THEN [msg |-> "No emails found in", folder |-> folder]
                               ELSE [msg |-> "Found emails in", folder |-> folder,
                                     n |-> Len(r.out.value["value"])]),
                graph |-> <<r.request>>]

EMAIL_DETAIL_FIELDS ==
    "id,subject,from,toRecipients,ccRecipients,bccRecipients,receivedDateTime,bodyPreview,body,hasAttachments,importance,isRead,internetMessageHeaders"

handle_read_email(id, token, http) ==
    IF id = "" THEN NoRequest([msg |-> "Email ID is required."])
    ELSE LET access_token == ensure_authenticated(token)
         IN IF access_token.kind = "raise"
            THEN NoRequest(Failed("Error accessing email: ", access_token.exc))
            ELSE IF ~Truthy(access_token.value)
            THEN NoRequest(AuthRequired("authenticate"))
            ELSE LET r == call_graph_api(access_token.value, "GET",
                                         <<"me/messages/", id>>, None,
                                         [select |-> EMAIL_DETAIL_FIELDS], http)
                 IN [out |-> Return(
                         IF r.out.kind = "raise"
                         THEN IF MentionsMailbox(r.out.exc)
                              THEN [msg |-> "The email ID seems invalid or doesn't belong to your mailbox. Please try with a different email ID."]
                              ELSE Failed("Failed to read email: ", r.out.exc)
                         ELSE IF DOMAIN r.out.value = {}
                         THEN [msg |-> "Email not found", id |-> id]
                         ELSE IF {"receivedDateTime", "subject"} \subseteq DOMAIN r.out.value
                         THEN [msg |-> "From:", email |-> r.out.value]
                         ELSE Failed("Failed to read email: ", [msg |-> "KeyError"])),
                     graph |-> <<r.request>>]

\* the names handle_send_email can refer to: its parameters, its locals and the
\* module's imports
SendNames ==
    {"to", "cc", "subject", "body", "importance", "save_to_sent_items",
     "access_token", "to_recipients", "cc_recipients", "bcc_recipients", "email_object",
     "call_graph_api", "ensure_authenticated", "mcp"}

\* the body texts that contain "<html"
HtmlBodies == {"<html><p>hello</p></html>"}

\* [{"emailAddress": {"address": email.strip()}} for email in text.split(",")]; the
\* comma-separated text is given as the sequence of its stripped pieces
Recipients(pieces) == [i \in 1..Len(pieces) |-> [emailAddress |-> [address |-> pieces[i]]]]

\* the pieces that are not empty
NonEmpty(pieces) == LET given(x) == x # "" IN SelectSeq(pieces, given)

EmailObject(to, cc, subject, body, importance, save_to_sent_items) ==
    LET message == [subject |-> subject,
                    body |-> [contentType |-> IF body \in HtmlBodies THEN "html" ELSE "text",
                              content |-> body],
                    toRecipients |-> Recipients(to),
                    importance |-> importance]
        cc_recipients == Recipients(NonEmpty(cc))
    IN [kind |-> "dict",
        d |-> [message |-> IF cc_recipients # <<>>
                           THEN SetKey(message, "ccRecipients", cc_recipients)
                           ELSE message,
               saveToSentItems |-> save_to_sent_items]]

handle_send_email(to, cc, subject, body, importance, save_to_sent_items, token, http) ==
    IF to = <<>> THEN NoRequest([msg |-> "Recipient (to) is required."])
    ELSE IF subject = "" THEN NoRequest([msg |-> "Subject is required."])
    ELSE IF body = "" THEN NoRequest([msg |-> "Body content is required."])
    ELSE LET access_token == ensure_authenticated(token)
         IN IF access_token.kind = "raise"
            THEN NoRequest(Failed("Error sending email: ", access_token.exc))
            ELSE IF ~Truthy(access_token.value)
            THEN NoRequest(AuthRequired("authenticate"))
            ELSE IF "bcc" \notin SendNames
            THEN NoRequest(Failed("Error sending email: ",
                                  [msg |-> "name 'bcc' is not defined"]))
            ELSE LET r == call_graph_api(access_token.value, "POST", "me/sendMail",
                                         EmailObject(to, cc, subject, body, importance,
                                                     save_to_sent_items),
                                         None, http)
                 IN [out |-> Return(IF r.out.kind = "raise"
                                    THEN Failed("Error sending email: ", r.out.exc)
                                    ELSE [msg |-> "Email sent successfully!",
                                          subject |-> subject, recipients |-> Len(to)]),
                     graph |-> <<r.request>>]

handle_delete_email(id, token, http) ==
    IF id = "" THEN NoRequest([msg |-> "Email ID is required."])
    ELSE LET access_token == ensure_authenticated(token)
         IN IF access_token.kind = "raise"
            THEN NoRequest(Failed("Error deleting email: ", access_token.exc))
            ELSE IF ~Truthy(access_token.value)
            THEN NoRequest(AuthRequired("authenticate"))
            ELSE LET r == call_graph_api(access_token.value, "DELETE",
                                         <<"me/messages/", id>>, None, None, http)
                 IN [out |-> Return(
                         IF r.out.kind = "return"
                         THEN [msg |-> "deleted successfully.", id |-> id]
                         ELSE IF MentionsMailbox(r.out.exc)
                         THEN [msg |-> "The email ID seems invalid or doesn't belong to your mailbox."]
                         ELSE Failed("Failed to delete email: ", r.out.exc)),
                     graph |-> <<r.request>>]

EventData(subject, start_datetime, end_datetime, timezone) ==
    [kind |-> "dict",
     d |-> [subject |-> subject,
            start |-> [dateTime |-> start_datetime, timeZone |-> timezone],
            end |-> [dateTime |-> end_datetime, timeZone |-> timezone],
            isAllDay |-> FALSE]]

\* location, body and attendees are left at their defaults
handle_create_event(subject, start_datetime, end_datetime, timezone, token, http) ==
    IF subject = "" THEN NoRequest([msg |-> "Subject is required."])
    ELSE IF start_datetime = "" THEN NoRequest([msg |-> "Start datetime is required."])
    ELSE IF end_datetime = "" THEN NoRequest([msg |-> "End datetime is required."])
    ELSE LET access_token == ensure_authenticated(token)
         IN IF access_token.kind = "raise"
            THEN NoRequest(Failed("Error creating event: ", access_token.exc))
            ELSE IF ~Truthy(access_token.value)
            THEN NoRequest(AuthRequired("handle_authenticate"))
            ELSE LET r == call_graph_api(access_token.value, "POST", "me/events",
                                         EventData(subject, start_datetime, end_datetime,
                                                   timezone),
                                         None, http)
                 IN [out |-> Return(IF r.out.kind = "raise"
                                    THEN IF r.out.exc = Unauthorized
                                         THEN AuthRequired("handle_authenticate")
                                         ELSE Failed("Error creating event: ", r.out.exc)
                                    ELSE [msg |-> "Event created successfully!",
                                          subject |-> subject]),
                     graph |-> <<r.request>>]

\* what format_search_results makes of the response progressive_search returned
format_search_results(response) ==
    IF ~HasResults(response)
    THEN [msg |-> "No emails found matching your search criteria."]
    ELSE [msg |-> "Found emails", n |-> Len(response["value"]),
          info |-> IF "_searchInfo" \in DOMAIN response
                   THEN response["_searchInfo"].strategies ELSE <<>>]

handle_check_auth_status(file) ==
    LET tokens == load_token_cache(file)
    IN IF tokens = None \/ DOMAIN tokens.d = {} \/ ~Truthy(Get(tokens.d, "access_token"))
       THEN "Not authenticated"
       ELSE "Authenticated and ready"

----------------------------------------------------------------------------
(* The tools as a state machine: each invocation asks get_valid_token for a token,  *)
(* which may refresh and rewrite the credential file, and then talks to Graph       *)

\* what get_valid_token can do in the current state, over the provider's answers and
\* the outcomes of the file write
TokenRuns ==
    {get_valid_token(tokenFile, fileMode, now, net, io, cmode) :
        net \in TokenResponses, io \in IoOutcomes, cmode \in ModeChoices(tokenFile)}

Email == [id |-> "m1", subject |-> "Invoice", receivedDateTime |-> "2024-05-01T10:00:00Z"]

ListOutcomes == SearchOutcomes

ReadOutcomes ==
    {Response(200, JsonText(Email)), Response(200, JsonText(EmptyObject)),
     Response(404, PlainText(NotInMailbox)), Response(401, PlainText(""))}

SendOutcomes ==
    {Response(202, PlainText("")), Response(200, JsonText(EmptyObject)),
     Response(401, PlainText("")), ClientError}

DeleteOutcomes ==
    {Response(204, PlainText("")), Response(200, JsonText(EmptyObject)),
     Response(404, PlainText(NotInMailbox)), Response(401, PlainText("")), ClientError}

CreateOutcomes ==
    {Response(201, JsonText([id |-> "e1", webLink |-> "w1"])),
     Response(401, PlainText("")), Response(400, PlainText("bad request"))}

Ids == {"", "m1"}

SendArgs ==
    [to : {<<>>, <<"amy@example.org">>}, cc : {<<>>, <<"bob@example.org">>},
     subject : {"", "Invoice"}, body : {"", "hello"}]

EventArgs ==
    [subject : {"", "Review"}, start_datetime : {"2024-05-01T10:00:00"},
     end_datetime : {"", "2024-05-01T11:00:00"}]

\* the search handle_search_emails starts in this state machine
ToolSearchArgs ==
    {[search_terms |-> [query |-> "", from |-> "", to |-> "", subject |-> "Invoice"],
      filter_terms |-> [hasAttachments |-> FALSE, unreadOnly |-> TRUE]]}

\* the invocation op has run: token is what get_valid_token gave it, identity the
\* requests to the identity provider, graph the requests to Graph
Invoked(op, args, valid, gv, r, http) ==
    /\ tokenFile' = gv.file
    /\ fileMode' = gv.mode
    /\ last' = [op |-> op, args |-> args, valid |-> valid, at |-> now, file |-> tokenFile,
                token |-> gv.out, identity |-> gv.requests, out |-> r.out,
                graph |-> r.graph, http |-> IF r.graph = <<>> THEN Unused ELSE http]
    /\ UNCHANGED <<now, ticks, state_tokens, issued, pending, consumed, settings>>

HandleListEmails ==
    /\ last = Idle /\ search = Ready
    /\ \E gv \in TokenRuns, http \in ListOutcomes :
           Invoked("handle_list_emails", [folder |-> "inbox", count |-> Count], TRUE, gv,
                   handle_list_emails("inbox", Count, gv.out, http), http)
    /\ UNCHANGED stepVars

HandleReadEmail ==
    /\ last = Idle /\ search = Ready
    /\ \E id \in Ids, gv \in TokenRuns, http \in ReadOutcomes :
           Invoked("handle_read_email", [id |-> id], id # "", gv,
                   handle_read_email(id, gv.out, http), http)
    /\ UNCHANGED stepVars

HandleSendEmail ==
    /\ last = Idle /\ search = Ready
    /\ \E a \in SendArgs, gv \in TokenRuns, http \in SendOutcomes :
           Invoked("handle_send_email", a,
                   a.to # <<>> /\ a.subject # "" /\ a.body # "", gv,
                   handle_send_email(a.to, a.cc, a.subject, a.body, "normal", TRUE,
                                     gv.out, http), http)
    /\ UNCHANGED stepVars

HandleDeleteEmail ==
    /\ last = Idle /\ search = Ready
    /\ \E id \in Ids, gv \in TokenRuns, http \in DeleteOutcomes :
           Invoked("handle_delete_email", [id |-> id], id # "", gv,
                   handle_delete_email(id, gv.out, http), http)
    /\ UNCHANGED stepVars

HandleCreateEvent ==
    /\ last = Idle /\ search = Ready
    /\ \E a \in EventArgs, gv \in TokenRuns, http \in CreateOutcomes :
           Invoked("handle_create_event", a,
                   a.subject # "" /\ a.start_datetime # "" /\ a.end_datetime # "", gv,
                   handle_create_event(a.subject, a.start_datetime, a.end_datetime,
                                       "America/Los_Angeles", gv.out, http), http)
    /\ UNCHANGED stepVars

Running == [kind |-> "running"]

\* handle_search_emails up to its call of progressive_search, which the search steps
\* carry out
HandleSearchEmails ==
    /\ last = Idle /\ search = Ready
    /\ \E a \in ToolSearchArgs, gv \in TokenRuns :
        LET access_token == ensure_authenticated(gv.out)
            searches == access_token.kind = "return" /\ Truthy(access_token.value)
            r == IF access_token.kind = "raise"
                 THEN NoRequest(Failed("Error searching emails: ", access_token.exc))
                 ELSE IF ~Truthy(access_token.value)
                 THEN NoRequest(AuthRequired("authenticate"))
                 ELSE [out |-> Running, graph |-> <<>>]
        IN /\ Invoked("handle_search_emails", a, TRUE, gv, r, ClientError)
           /\ search' = IF searches
                        THEN [pc |-> "combined", i |-> 0, search_terms |-> a.search_terms,
                              filter_terms |-> a.filter_terms, search_attempts |-> <<>>,
                              requests |-> <<>>, answers |-> <<>>]
                        ELSE search
    /\ UNCHANGED <<loop, handlers, writers>>

\* progressive_search has returned or raised: handle_search_emails formats the result
SearchEmailsReturns ==
    /\ search.pc = "done"
    /\ last.op = "handle_search_emails"
    /\ last' = [last EXCEPT
                   !.out = Return(IF search.out.kind = "raise"
                                  THEN Failed("Error searching emails: ", search.out.exc)
                                  ELSE format_search_results(search.out.value)),
                   !.graph = search.requests]
    /\ search' = Ready
    /\ UNCHANGED <<now, ticks, tokenFile, fileMode, state_tokens, issued, pending,
                   consumed, settings, loop, handlers, writers>>

HandleCheckAuthStatus ==
    /\ last = Idle /\ search = Ready
    /\ last' = [op |-> "handle_check_auth_status", at |-> now, file |-> tokenFile,
                mode |-> fileMode, out |-> Return(handle_check_auth_status(tokenFile))]
    /\ UNCHANGED <<now, ticks, tokenFile, fileMode, state_tokens, issued, pending,
                   consumed, settings>>
    /\ UNCHANGED stepVars

\* the caller has taken the result of a finished invocation
FinishTool ==
    /\ search = Ready
    /\ Finish

TickBetweenTools ==
    /\ search = Ready
    /\ Tick

NextTools ==
    \/ TickBetweenTools
    \/ FinishTool
    \/ ExchangeCodeForTokens
    \/ HandleCheckAuthStatus
    \/ HandleListEmails
    \/ HandleReadEmail
    \/ HandleSendEmail
    \/ HandleDeleteEmail
    \/ HandleCreateEvent
    \/ HandleSearchEmails
    \/ CombinedSearch
    \/ SingleTermSearch
    \/ FiltersOnlySearch
    \/ RecentEmails
    \/ SearchEmailsReturns

SpecTools == Init /\ [][NextTools]_vars

----------------------------------------------------------------------------
(* The tools: properties under SpecTools *)

MailAndCalendarTools ==
    {"handle_list_emails", "handle_search_emails", "handle_read_email",
     "handle_send_email", "handle_delete_email", "handle_create_event"}

\* a mail or calendar tool was invoked with valid arguments
ToolInvoked == last.op \in MailAndCalendarTools /\ last.valid

\* get_valid_token gave the invocation no token
NoUsableToken == last.token.kind = "return" /\ last.token.value = None

\* get_valid_token gave the invocation a token
UsableToken == last.token.kind = "return" /\ Truthy(last.token.value)

\* C22: when the token manager yields no usable token (no record, or an expired record
\* whose refresh fails), every mail and calendar tool invoked with valid arguments
\* returns the 'Authentication required' message as a normal result, raises nothing and
\* issues no Graph request.
C22_NoTokenMeansAuthenticationRequired ==
    (ToolInvoked /\ NoUsableToken) =>
        /\ last.out.kind = "return"
        /\ last.out.value.msg = "Authentication required"
        /\ last.graph = <<>>

\* the record is expired, the refresh request was sent and failed, and the calendar
\* tool asks for authentication
C22_Witness ==
    /\ ToolInvoked /\ NoUsableToken
    /\ last.op = "handle_create_event"
    /\ last.file.kind = "json"
    /\ last.identity # <<>>
    /\ last.out = Return(AuthRequired("handle_authenticate"))
    /\ last.graph = <<>>

\* the Graph API answered the request with a status 200..299
Answered2xx ==
    /\ last.http.kind = "response"
    /\ last.http.status \in 200..299

\* C27: handle_send_email with non-empty to, subject and body and a usable access token
\* issues exactly one POST me/sendMail request carrying the given recipients, subject and
\* body, and returns the 'Email sent successfully' message when that request succeeds.
C27_SendEmailIssuesOneRequest ==
    (last.op = "handle_send_email" /\ last.valid /\ UsableToken) =>
        /\ Len(last.graph) = 1
        /\ last.graph[1].method = "POST"
        /\ last.graph[1].path = "me/sendMail"
        /\ last.graph[1].json.d.message.subject = last.args.subject
        /\ last.graph[1].json.d.message.body.content = last.args.body
        /\ last.graph[1].json.d.message.toRecipients = Recipients(last.args.to)
        /\ Answered2xx => last.out.value.msg = "Email sent successfully!"

\* C28: handle_delete_email returns the 'deleted successfully' confirmation whenever
\* Graph answers the DELETE me/messages/{id} request with a 2xx status, an empty body
\* included, and returns a failure message only when the deletion did not succeed.
C28_DeleteConfirmedOn2xx ==
    (last.op = "handle_delete_email" /\ last.valid /\ UsableToken) =>
        /\ Len(last.graph) = 1
        /\ last.graph[1].method = "DELETE"
        /\ last.graph[1].path = <<"me/messages/", last.args.id>>
        /\ Answered2xx <=> last.out.value.msg = "deleted successfully."

\* the provider answers a refresh request with a full set of tokens
ResponsiveProvider == Json([access_token |-> "a1", refresh_token |-> "r1", expires_in |-> 900])

\* what get_valid_token returns in the state the status tool saw, for the answer net
TokenThen(net) ==
    get_valid_token(last.file, last.mode, last.at, net, "ok", TOKEN_FILE_MODE).out

\* the record the status tool saw is expired and no answer of the provider helps
ExpiredAndUnrefreshable ==
    /\ last.file.kind = "json"
    /\ is_token_expired(last.file.data, last.at)
    /\ \A net \in TokenResponses : TokenThen(net) = Return(None)

\* C30: in every state of the credential file in which handle_check_auth_status reports
\* 'Authenticated and ready', get_valid_token in that state with a responsive provider
\* returns an access token; and whenever get_valid_token would return absent because
\* the record is expired and cannot be refreshed, the tool reports 'Not authenticated'.
C30_StatusAgreesWithTokenLifecycle ==
    last.op = "handle_check_auth_status" =>
        /\ last.out = Return("Authenticated and ready") =>
               (TokenThen(ResponsiveProvider).kind = "return"
                /\ Truthy(TokenThen(ResponsiveProvider).value))
        /\ ExpiredAndUnrefreshable => last.out = Return("Not authenticated")

====
